---- MODULE Spec2Model ----
(***************************************************************************)
(* Model of the DC -> Cloud status transition audit (api_main_v1.5.py):    *)
(* the retrying HTTP helper, project discovery, the per-project            *)
(* orchestration (presence check, issue search, source changelogs, target  *)
(* changelogs, comparison, report) and main's loop over the projects.      *)
(***************************************************************************)
EXTENDS Integers, Sequences, FiniteSets, TLC

\* ------------------------------------------------------------------ bounds
\* Number of projects the source system lists.
NumProjects == 2
\* Status events the source changelogs yield during one run, over all issues.
MaxEvents == 2
\* Pages one paginated fetch (source search, target changelog) may take.
MaxPages == 2
\* Issues of a source feed that is followed on its own.
MaxFeed == 5
\* Keys a source feed puts on one page.
MaxPageSize == 3
\* The largest total a source feed reports.
MaxTotal == 3

SeqsUpTo(S, n) == UNION { [1..k -> S] : k \in 0..n }

\* ------------------------------------------------------- program constants
\* _request_with_retries(max_retries=3, backoff_factor=2)
max_retries == 3
backoff_factor == 2

\* ------------------------------------------------------------- HTTP model
\* The outcome of one attempt: a status code, or TransportError when
\* requests.request raises a RequestException.
TransportError == 0
StatusCodes == {200, 403, 404, 429, 500, 503}
AttemptOutcomes == StatusCodes \cup {TransportError}

\* Line 78: the statuses that are retried.
Retryable(status) == status = 429 \/ (500 =< status /\ status < 600)

\* One iteration of the for loop of _request_with_retries (lines 61-98):
\* what the attempt numbered `attempt` does with outcome `o`.
\*   "return" : return resp            (lines 84, 88)
\*   "raise"  : re-raise the exception (line 97)
\*   "retry"  : sleep and continue     (lines 85-86, 98)
AttemptStepOneMore(attempt, o) ==
    IF o = TransportError
    THEN IF attempt > max_retries THEN "raise" ELSE "retry"
    ELSE IF Retryable(o)
         THEN IF attempt > max_retries THEN "return" ELSE "retry"
         ELSE "return"

AttemptStepRaisesForStatus(attempt, o) ==
    IF o = TransportError
    THEN IF attempt = max_retries THEN "raise" ELSE "retry"
    ELSE IF Retryable(o)
         THEN IF attempt = max_retries THEN "raise" ELSE "retry"
         ELSE "return"

AttemptStep(attempt, o) ==
    IF o = TransportError
    THEN IF attempt = max_retries THEN "raise" ELSE "retry"
    ELSE IF Retryable(o)
         THEN IF attempt = max_retries THEN "return" ELSE "retry"
         ELSE "return"

\* Lines 85, 98: the delay slept after the attempt numbered `attempt`.
SleepAfterFlat(attempt) == backoff_factor
SleepAfter(attempt) == backoff_factor * attempt

\* The whole helper against a server that answers attempt n with outs[n]:
\* the result handed to the caller, the attempts made and the delays slept.
RECURSIVE RetryLoop(_, _, _)
RetryLoop(outs, attempt, sleeps) ==
    LET step == AttemptStep(attempt, outs[attempt])
    IN IF step = "retry"
       THEN RetryLoop(outs, attempt + 1, Append(sleeps, SleepAfter(attempt)))
       ELSE [raised |-> (step = "raise"), status |-> outs[attempt],
             attempts |-> attempt, sleeps |-> sleeps]

RequestWithRetries(outs) == RetryLoop(outs, 1, <<>>)

\* What a caller of dc_get / cloud_get can observe: a response with a status,
\* or a raised transport exception (status TransportError).
HttpOutcomes ==
    { [raised |-> r.raised, status |-> r.status] :
        r \in { RequestWithRetries(outs) : outs \in [1..max_retries -> AttemptOutcomes] } }

\* A caller's test `resp.status_code != 200`, for an outcome that did not raise.
Failed(r) == r.raised \/ r.status # 200

\* ------------------------------------------------------------ data domains
\* Projects as the discovery endpoint lists them, in its order.
AllProjectKeys == <<"ALPHA", "beta", "Gamma", "DELTA">>
ProjectKeys == { AllProjectKeys[n] : n \in 1..NumProjects }
ProjectId(key) == CHOOSE n \in 1..NumProjects : AllProjectKeys[n] = key

\* The issues of a project, in the order of the search (ORDER BY key ASC).
IssueKeyList == <<"K-1", "K-2">>
IssueKeys == { IssueKeyList[n] : n \in 1..Len(IssueKeyList) }

\* Status names. NoName stands for a missing (None) or empty name; Unhashable
\* for a JSON value that is truthy but cannot be hashed (a list).
NoName == ""
Unhashable == "[unhashable]"
Pair(f, t) == <<f, t>>
\* The id a server gives the status of a name; a missing name has no id.
StatusId(name) ==
    IF name = "Open" THEN "1" ELSE IF name = "In Progress" THEN "3"
    ELSE IF name = "Done" THEN "5" ELSE IF name = NoName THEN NoName ELSE "9"

\* A changelog item: "fromString"/"toString" are the names, "from"/"to" the ids.
Item(field, f, t) ==
    [field |-> field, fromString |-> f, toString |-> t,
     from |-> StatusId(f), to |-> StatusId(t)]

\* The "author" object of a history; a missing or empty member is NoName, and
\* a missing or null object is the object without members (line 249).
AuthorObject(displayName, name, emailAddress) ==
    [displayName |-> displayName, name |-> name, emailAddress |-> emailAddress]
NoAuthor == AuthorObject(NoName, NoName, NoName)
FullAuthor == AuthorObject("Ann Lee", "alee", "ann@example.org")
AuthorObjects ==
    { AuthorObject(d, n, e) :
        d \in {NoName, "Ann Lee"}, n \in {NoName, "alee"},
        e \in {NoName, "ann@example.org"} }

\* The id and the creation time a server gives a history (a change group):
\* they tell the histories of different transitions apart.
GroupId(items) == "5" \o StatusId(items[1].fromString) \o StatusId(items[1].toString)
Created(items) == "2024-01-0" \o StatusId(items[1].toString) \o "T10:00:00.000+0000"

\* A history of a source changelog: its id, creation time, author and items.
\* The history without an author object also lacks "id" and "created".
History(author_obj, items) ==
    [id |-> IF author_obj = NoAuthor THEN NoName ELSE GroupId(items),
     created |-> IF author_obj = NoAuthor THEN NoName ELSE Created(items),
     author |-> author_obj, items |-> items]

\* The "id" of the issue in a source response.
DcIssueId == "10001"

\* The histories a source changelog may hold.
DcHistories ==
    { History(FullAuthor, <<Item("status", "Open", "Done")>>),
      History(NoAuthor, <<Item("status", "Done", "Open")>>),
      History(FullAuthor, <<Item("status", NoName, "Done")>>),
      History(FullAuthor, <<Item("status", "Open", Unhashable)>>),
      History(FullAuthor, <<Item("assignee", "Open", "Done")>>),
      History(FullAuthor, <<Item("assignee", "Open", "Done"),
                            Item("status", "Open", "Done")>>) }

\* The histories a target changelog page may hold.
CloudHistories ==
    { <<Item("status", "Open", "Done")>>,
      <<Item("resolution", "Done", "Open")>> }

\* ------------------------------------------------- dc_list_projects (body)
\* Lines 144-152: the entries of the body that have a key and an id, in order.
\* A missing key is NoName, a missing id is 0.
RECURSIVE ParseProjectsKeyOnly(_)
ParseProjectsKeyOnly(body) ==
    IF body = <<>> THEN <<>>
    ELSE LET p == Head(body)
             rest == ParseProjectsKeyOnly(Tail(body))
         IN IF p.key # NoName
            THEN <<[key |-> p.key, id |-> p.id]>> \o rest
            ELSE rest

RECURSIVE ParseProjects(_)
ParseProjects(body) ==
    IF body = <<>> THEN <<>>
    ELSE LET p == Head(body)
             rest == ParseProjects(Tail(body))
         IN IF p.key # NoName /\ p.id # 0
            THEN <<[key |-> p.key, id |-> p.id]>> \o rest
            ELSE rest

\* ---------------------------------------- dc_iter_status_changes (body)
\* Lines 249-255: the author of a history, the first member of its author
\* object that is not empty, else "Unknown".
AuthorOfWithoutSentinel(author_obj) ==
    IF author_obj.displayName # NoName THEN author_obj.displayName
    ELSE IF author_obj.name # NoName THEN author_obj.name
    ELSE author_obj.emailAddress

AuthorOf(author_obj) ==
    IF author_obj.displayName # NoName THEN author_obj.displayName
    ELSE IF author_obj.name # NoName THEN author_obj.name
    ELSE IF author_obj.emailAddress # NoName THEN author_obj.emailAddress
    ELSE "Unknown"

\* Lines 259-276: one event per item whose field is "status", with the names
\* and ids of the item ("fromStatus", "toStatus"), the id of the issue and the
\* author, creation time and id of its history; the history id fills both
\* "changegroup_Id" and "changeitem_Id".
RECURSIVE ItemEvents(_, _, _, _, _)
ItemEvents(items, dc_issue_id, author, created, history_id) ==
    IF items = <<>> THEN <<>>
    ELSE LET it == Head(items)
             rest == ItemEvents(Tail(items), dc_issue_id, author, created, history_id)
         IN IF it.field = "status"
            THEN <<[dcIssueId |-> dc_issue_id,
                    from |-> it.fromString, to |-> it.toString,
                    fromId |-> it.from, toId |-> it.to, author |-> author,
                    timestamp |-> created, changegroup_Id |-> history_id,
                    changeitem_Id |-> history_id]>> \o rest
            ELSE rest

\* Lines 248-276: the events of all histories, in order.
RECURSIVE StatusEvents(_, _)
StatusEvents(histories, dc_issue_id) ==
    IF histories = <<>> THEN <<>>
    ELSE LET history == Head(histories)
         IN ItemEvents(history.items, dc_issue_id, AuthorOf(history.author),
                       history.created, history.id)
            \o StatusEvents(Tail(histories), dc_issue_id)

\* Lines 413-416: the test that keeps an event (both names truthy).
RetainedWithEitherName(change) == change.from # NoName \/ change.to # NoName
Retained(change) == change.from # NoName /\ change.to # NoName

RetainedEvents(events) == SelectSeq(events, Retained)

\* A "total" that is missing (None).
NoTotal == -1

\* Line 242: the changelog holds fewer histories than the total it reports.
Truncated(data) == data.total # NoTotal /\ data.total > Len(data.histories)

\* Lines 236-276, on the body of a 200 answer: whether the generator raised,
\* whether it printed the truncation warning, and the events it yielded.
IterRaisesWhenTruncated(data) ==
    [raised |-> Truncated(data), warned |-> FALSE,
     events |-> IF Truncated(data) THEN <<>> ELSE StatusEvents(data.histories, data.id)]

IterStatusChanges(data) ==
    [raised |-> FALSE, warned |-> Truncated(data),
     events |-> StatusEvents(data.histories, data.id)]

\* ------------------------------------------ cloud_fetch_status_pairs (body)
\* Line 332: payload.get("values") or payload.get("histories") or [].
HistoriesOf(payload) ==
    IF payload.values # <<>> THEN payload.values ELSE payload.histories

\* Lines 334-339: the pairs of the "status" items of a page.
StatusPairsOfAnyField(histories) ==
    UNION { { Pair(histories[h][n].fromString, histories[h][n].toString) :
                n \in 1..Len(histories[h]) } :
            h \in 1..Len(histories) }

StatusPairs(histories) ==
    UNION { { Pair(histories[h][n].fromString, histories[h][n].toString) :
                n \in { m \in 1..Len(histories[h]) : histories[h][m].field = "status" } } :
            h \in 1..Len(histories) }

\* A page without a "total" has total = NoTotal; isLast is "absent", "true"
\* or "false".

\* Lines 341-351: TRUE when the loop breaks after this page, start_at being
\* the value after line 342.
PageEndsMissingFlagGoesOn(payload, start_at) ==
    IF payload.total # NoTotal
    THEN start_at >= payload.total
    ELSE HistoriesOf(payload) = <<>> \/ payload.isLast = "true"

PageEnds(payload, start_at) ==
    IF payload.total # NoTotal
    THEN start_at >= payload.total
    ELSE HistoriesOf(payload) = <<>> \/ payload.isLast # "false"

\* Lines 446-453: what cloud_cache[key] holds after the except clause ran
\* because the pair fetch raised, `partial` being the pairs of earlier pages.
\* None is an absent value, Some(x) a present one.
None == [none |-> TRUE, pairs |-> {}]
Some(x) == [none |-> FALSE, pairs |-> x]
CacheKeepsPartialPairs(partial) == Some(partial)
CacheAfterPairsError(partial) == None

\* Lines 444-453: what cloud_cache[key] holds after cloud_get_issue_id raised,
\* `cached` being the value line 444 had stored.
CacheKeepsFetchedPairs(cached) == cached
CacheAfterIdError(cached) == None

\* ----------------------------------------------- cloud_project_exists (body)
\* Lines 287, 289-304: what the loop does with the outcome of one lookup.
\*   "present" : return True           (line 296)
\*   "next"    : continue              (line 298)
\*   "absent"  : return False at once  (lines 293, 304)
LookupVerdictStopsAt404(r) ==
    IF r.raised THEN "absent"
    ELSE IF r.status = 200 THEN "present"
    ELSE "absent"

LookupVerdictTriesNext(r) ==
    IF r.raised THEN "next"
    ELSE IF r.status = 200 THEN "present"
    ELSE "next"

LookupVerdict(r) ==
    IF r.raised THEN "absent"
    ELSE IF r.status = 200 THEN "present"
    ELSE IF r.status = 404 THEN "next"
    ELSE "absent"

Identifiers == <<"key", "id">>

\* Lines 383-389: where process_project goes after the presence check.
AfterPresenceNoReturn(found) == "search"
AfterPresence(found) == IF found THEN "search" ELSE "returned"

\* --------------------------------------- dc_search_issue_keys_for_project
\* Line 189: the page fetch failed (dc_get raised, or a status other than 200).
SearchFailedOnlyOnException(page) == page.raised
SearchFailed(page) == Failed(page)

\* Line 201: payload.get("total", 0).
TotalOfMissingIsUnbounded(page) == IF page.total = NoTotal THEN 1000000 ELSE page.total
TotalOf(page) == IF page.total = NoTotal THEN 0 ELSE page.total

\* Lines 197-204: TRUE when the loop breaks after this page.
SearchEndsPastTotal(page, start_at) ==
    page.issues = <<>> \/ start_at + Len(page.issues) > TotalOf(page)

SearchEnds(page, start_at) ==
    page.issues = <<>> \/ start_at + Len(page.issues) >= TotalOf(page)

\* ------------------------------------------------- process_project (compare)
\* What an f-string shows of a value: a missing (None) id shows as "None".
Str(value) == IF value = NoName THEN "None" ELSE value

\* Line 473: f"{f_name} \u2192 {t_name}".
TransitionStr(f_name, t_name) == Str(f_name) \o " → " \o Str(t_name)

\* Lines 480-481: f"{name} ({id})".
StatusStr(name, id) == Str(name) \o " (" \o Str(id) \o ")"

\* Lines 418-419 and 477: the source id kept for each issue is the one of its
\* first retained change, and "" for an issue without one.
dc_issue_id_map(transitions) ==
    [key \in DOMAIN transitions |->
        IF transitions[key] = <<>> THEN "" ELSE transitions[key][1].dcIssueId]

\* Lines 469-486: the row of an entry, column by column.
RowSwapsIssueIds(key, entry, dc_issue_id, cloud_issue_id) ==
    [issueKey |-> key, dc_issue_id |-> cloud_issue_id,
     cloud_issue_id |-> dc_issue_id,
     transition |-> TransitionStr(entry.from, entry.to),
     from_status |-> StatusStr(entry.from, entry.fromId),
     to_status |-> StatusStr(entry.to, entry.toId),
     author |-> entry.author, timestamp |-> entry.timestamp,
     changegroup_Id |-> entry.changegroup_Id,
     changeitem_Id |-> entry.changeitem_Id]

Row(key, entry, dc_issue_id, cloud_issue_id) ==
    [issueKey |-> key, dc_issue_id |-> dc_issue_id,
     cloud_issue_id |-> cloud_issue_id,
     transition |-> TransitionStr(entry.from, entry.to),
     from_status |-> StatusStr(entry.from, entry.fromId),
     to_status |-> StatusStr(entry.to, entry.toId),
     author |-> entry.author, timestamp |-> entry.timestamp,
     changegroup_Id |-> entry.changegroup_Id,
     changeitem_Id |-> entry.changeitem_Id]

\* Line 488: the membership test. Hashing an unhashable name raises TypeError.
Hashable(entry) == entry.from # Unhashable /\ entry.to # Unhashable
IsMissingComparesIds(entry, cloud_pairs) == Pair(entry.fromId, entry.toId) \notin cloud_pairs
IsMissingInverted(entry, cloud_pairs) == Pair(entry.from, entry.to) \in cloud_pairs
IsMissing(entry, cloud_pairs) == Pair(entry.from, entry.to) \notin cloud_pairs

\* Lines 468-489: the rows appended for one issue, and whether line 488 raised.
RECURSIVE CompareEntries(_, _, _, _, _, _)
CompareEntries(key, entries, cloud_pairs, dc_issue_id, cloud_issue_id, rows) ==
    IF entries = <<>> THEN [raised |-> FALSE, rows |-> rows]
    ELSE LET entry == Head(entries)
             row == Row(key, entry, dc_issue_id, cloud_issue_id)
         IN IF ~Hashable(entry) THEN [raised |-> TRUE, rows |-> rows]
            ELSE CompareEntries(key, Tail(entries), cloud_pairs,
                     dc_issue_id, cloud_issue_id,
                     IF IsMissing(entry, cloud_pairs)
                     THEN Append(rows, row) ELSE rows)

\* Lines 465-466: the index of the next issue after one whose cloud_cache
\* entry is None (`continue`), n being the number of issues.
BreakAfterSkippedIssue(i, n) == n + 1
AfterSkippedIssue(i, n) == i + 1

\* Lines 458-489: the comparison loop from issue order[i] on. It returns the
\* rows appended and whether line 488 raised.
RECURSIVE CompareLoop(_, _, _, _, _, _)
CompareLoop(order, i, transitions, cache, cloud_ids, rows) ==
    IF i > Len(order) THEN [raised |-> FALSE, rows |-> rows]
    ELSE LET key == order[i]
             cloud_pairs == cache[key]
             res == CompareEntries(key, transitions[key], cloud_pairs.pairs,
                                   dc_issue_id_map(transitions)[key],
                                   cloud_ids[key], rows)
         IN IF cloud_pairs.none
            THEN CompareLoop(order, AfterSkippedIssue(i, Len(order)), transitions,
                             cache, cloud_ids, rows)
            ELSE IF res.raised THEN res
            ELSE CompareLoop(order, i + 1, transitions, cache, cloud_ids, res.rows)

\* Lines 497-500: the rows of the report the except clause writes.
ErrorReportKeepsRows(rows) == rows
ErrorReportRows(rows) == <<>>

\* -------------------------------------------------------- server responses
Response(o) == [raised |-> o.raised, status |-> o.status]
\* The failures the lookups of the presence check are answered with, and
\* those the other requests are: a transport exception, a 404 and a 503.
AllFailures == { o \in HttpOutcomes : Failed(o) }
Failures == { o \in AllFailures : o.raised \/ o.status \in {404, 503} }
Ok == [raised |-> FALSE, status |-> 200]

\* GET /rest/api/{ver}/project: a body lists every project; at most one entry
\* lacks its key or its id.
ProjectEntry(n, bad, what) ==
    [key |-> IF n = bad /\ what = "key" THEN NoName ELSE AllProjectKeys[n],
     id  |-> IF n = bad /\ what = "id" THEN 0 ELSE n]
ProjectBodies ==
    { [n \in 1..NumProjects |-> ProjectEntry(n, bad, what)] :
        bad \in 0..NumProjects, what \in {"key", "id"} }
ProjectResponses ==
    { [raised |-> o.raised, status |-> o.status, body |-> <<>>] : o \in Failures }
    \cup { [raised |-> FALSE, status |-> 200, body |-> b] : b \in ProjectBodies }

\* GET /rest/api/2/search with startAt: a page is a slice of the project's
\* issues that starts at startAt, of any length, with any total or none.
KeySlices(startAt) ==
    { SubSeq(IssueKeyList, startAt + 1, startAt + n) :
        n \in 0..(Len(IssueKeyList) - startAt) }
SearchPages(startAt) ==
    { [raised |-> o.raised, status |-> o.status, issues |-> <<>>, total |-> NoTotal] :
        o \in Failures }
    \cup { [raised |-> FALSE, status |-> 200, issues |-> ks, total |-> t] :
             ks \in KeySlices(startAt), t \in {NoTotal} \cup 0..Len(IssueKeyList) }

\* GET /rest/api/{ver}/issue/{key}?expand=changelog
\* The changelog of a 200 answer reports no total, or the number of its
\* histories, or one more.
DcIssueResponses ==
    { [raised |-> o.raised, status |-> o.status, id |-> NoName,
        histories |-> <<>>, total |-> NoTotal] : o \in Failures }
    \cup { [raised |-> FALSE, status |-> 200, id |-> DcIssueId, histories |-> th[2],
            total |-> IF th[1] = NoTotal THEN NoTotal ELSE Len(th[2]) + th[1]] :
             th \in {NoTotal, 0, 1} \X SeqsUpTo(DcHistories, MaxEvents) }

\* What dc_iter_status_changes makes of each answer (lines 236-276).
DcFetchOutcomes ==
    { [raised |-> r.raised, status |-> r.status, it |-> IterStatusChanges(r)] :
        r \in DcIssueResponses }

\* GET /rest/api/3/issue/{key}/changelog: a page carries its histories under
\* "values" or under "histories".
CloudBodies == SeqsUpTo(CloudHistories, 1)
CloudPages ==
    { [raised |-> o.raised, status |-> o.status, values |-> <<>>, histories |-> <<>>,
       total |-> NoTotal, isLast |-> "absent"] : o \in Failures }
    \cup { [raised |-> FALSE, status |-> 200, values |-> vh[1], histories |-> vh[2],
            total |-> t, isLast |-> l] :
             vh \in { x \in CloudBodies \X CloudBodies : x[1] = <<>> \/ x[2] = <<>> },
             t \in {NoTotal} \cup 0..MaxPages, l \in {"absent", "true", "false"} }

\* cloud_fetch_status_pairs, lines 321-353: one iteration of the while loop
\* from the locals s, the server answering with `page`.
\*   "raise"  : line 326      "return" : line 353      "loop" : next page
PairsStepKeepsLastPage(s, page) ==
    LET histories == HistoriesOf(page)
        start_at == s.start_at + Len(histories)
    IN IF Failed(page)
       THEN [exit |-> "raise", pairs |-> s.pairs, start_at |-> s.start_at]
       ELSE [exit |-> IF PageEnds(page, start_at) THEN "return" ELSE "loop",
             pairs |-> StatusPairs(histories),
             start_at |-> start_at]

PairsStep(s, page) ==
    LET histories == HistoriesOf(page)
        start_at == s.start_at + Len(histories)
    IN IF Failed(page)
       THEN [exit |-> "raise", pairs |-> s.pairs, start_at |-> s.start_at]
       ELSE [exit |-> IF PageEnds(page, start_at) THEN "return" ELSE "loop",
             pairs |-> s.pairs \cup StatusPairs(histories),
             start_at |-> start_at]

\* Lines 317-319: the locals before the first page.
PairsStart == [exit |-> "loop", pairs |-> {}, start_at |-> 0]

\* The ways cloud_fetch_status_pairs can end within n pages, from the locals S.
RECURSIVE PairsExits(_, _)
PairsExits(S, n) ==
    IF n = 0 \/ S = {} THEN {}
    ELSE LET T == { PairsStep(s, page) : s \in S, page \in CloudPages }
         IN { t \in T : t.exit # "loop" }
            \cup PairsExits({ t \in T : t.exit = "loop" }, n - 1)

\* How the pair fetch of one issue can end: it raised, holding `pairs` from
\* the pages before, or it returned `pairs`.
CloudFetchOutcomes ==
    { [raised |-> (e.exit = "raise"), pairs |-> e.pairs] :
        e \in PairsExits({PairsStart}, MaxPages) }

\* ------------------------------------------------------------------- state
VARIABLES
    pc,           \* where main / process_project stands
    ver,          \* dc_list_projects: index of the API version being tried
    projects,     \* main: the run list
    idx,          \* main: index of the current project in the run list
    reports,      \* the report files: per project, times written and rows
    failed,       \* projects whose processing ended in the except clause (497)
    processed,    \* projects handed to process_project, in call order
    eventsLeft,   \* status events the source may still return in this run
    frame,        \* the local variables of the running process_project call
    req,          \* the local variables of one _request_with_retries call
    disc,         \* dc_list_projects: the requests made, until main moves on
    call,         \* the local variables of one paginated fetch, with its server
    args          \* main: the command line arguments

vars == <<pc, ver, projects, idx, reports, failed, processed, eventsLeft,
          frame, req, disc, call, args>>

\* main lines 535-551: --only is a list of keys and --resume-from a key; one
\* that is not given is None, here the empty set and NoName.
NoArgs == [only |-> {}, resume_from |-> NoName]

\* str.upper() on the keys that occur.
Upper(key) ==
    IF key \in {"ALPHA", "Alpha", "alpha"} THEN "ALPHA"
    ELSE IF key \in {"BETA", "Beta", "beta"} THEN "BETA"
    ELSE IF key \in {"GAMMA", "Gamma", "gamma"} THEN "GAMMA"
    ELSE IF key \in {"DELTA", "Delta", "delta"} THEN "DELTA"
    ELSE IF key \in {"ZETA", "zeta"} THEN "ZETA"
    ELSE key

\* Lines 556-563: the projects main goes through, of those discovered.
FilterOnlyExactCase(all_projects, only) ==
    IF only # {}
    THEN LET Wanted(p) == p.key \in only
         IN SelectSeq(all_projects, Wanted)
    ELSE all_projects

FilterOnly(all_projects, only) ==
    IF only # {}
    THEN LET wanted == { Upper(k) : k \in only }
             Wanted(p) == Upper(p.key) \in wanted
         IN SelectSeq(all_projects, Wanted)
    ELSE all_projects

\* Lines 565-576: start_index, the position (from 0) of the first project
\* whose key is the resume key ignoring case, 0 when there is none.
StartIndexAfterMatch(run, resume_from) ==
    LET matches == { i \in 1..Len(run) : Upper(run[i].key) = Upper(resume_from) }
    IN IF resume_from # NoName /\ matches # {}
       THEN CHOOSE i \in matches : \A j \in matches : i =< j
       ELSE 0

StartIndexExactCase(run, resume_from) ==
    LET matches == { i \in 1..Len(run) : run[i].key = resume_from }
    IN IF resume_from # NoName /\ matches # {}
       THEN (CHOOSE i \in matches : \A j \in matches : i =< j) - 1
       ELSE 0

StartIndex(run, resume_from) ==
    LET matches == { i \in 1..Len(run) : Upper(run[i].key) = Upper(resume_from) }
    IN IF resume_from # NoName /\ matches # {}
       THEN (CHOOSE i \in matches : \A j \in matches : i =< j) - 1
       ELSE 0

\* Lines 139 and 219: the API versions in the order they are tried.
VersionsNewestFirst == <<"3", "2">>
Versions == <<"2", "3">>

\* The locals of process_project when it is entered.
BlankFrame ==
    [ lookups |-> <<>>,            \* cloud_project_exists: lookups issued
      exists |-> "unknown",        \* result of cloud_project_exists
      keys |-> <<>>,               \* dc_search: keys
      start_at |-> 0,              \* dc_search: start_at
      searchPages |-> 0,           \* dc_search: pages requested
      lastSearch |-> Ok,           \* dc_search: outcome of the last page request
      issue_keys |-> <<>>,
      i |-> 1,                     \* position of the running for loop
      dcVer |-> 1,                 \* dc_iter_status_changes: version index
      dcLog |-> <<>>,              \* dc_iter_status_changes: requests for the last issue
      dcOrder |-> <<>>,            \* dc_transitions_by_issue: keys, in insertion order
      dc_transitions_by_issue |-> [k \in IssueKeys |-> <<>>],
      dcFailed |-> {},             \* issues whose source fetch raised
      dcFetched |-> {},            \* issues whose source fetch returned
      cloud_cache |-> [k \in IssueKeys |-> None],
      cloud_issue_id_map |-> [k \in IssueKeys |-> ""],
      cloudFail |-> [k \in IssueKeys |-> "none"],   \* which target fetch raised
      cloudAsked |-> {},           \* issues whose target changelog was requested
      idAsked |-> {},              \* issues whose target id was requested
      cloudPartial |-> {},         \* pairs held when a target fetch last raised
      missing_rows |-> <<>>,
      outcome |-> "none",          \* the branch that wrote the report
      raisedAt |-> "none",         \* where the exception caught at 497 came from
      trace |-> <<>>,              \* requests and writes of this call, in order
      log |-> <<>> ]               \* lines printed about a skip, a failure or a write

IdleReq ==
    [caller |-> "none", state |-> "idle", attempt |-> 0, log |-> <<>>, sleeps |-> <<>>,
     status |-> 0]

NoReport == [writes |-> 0, rows |-> <<>>]

\* No paginated fetch is being followed on its own.
IdleCall == [fn |-> "none"]

Init ==
    /\ pc = "main_discover"
    /\ ver = 1
    /\ projects = <<>>
    /\ idx = 0
    /\ reports = [p \in ProjectKeys |-> NoReport]
    /\ failed = {}
    /\ processed = <<>>
    /\ eventsLeft = MaxEvents
    /\ frame = BlankFrame
    /\ req = IdleReq
    /\ disc = <<>>
    /\ args = NoArgs
    /\ call = IdleCall

\* write_csv (lines 503-525): the file is opened with "w" and rewritten.
WriteCsvSkipsEmpty(project_key, rows) ==
    IF rows = <<>> THEN reports
    ELSE [reports EXCEPT ![project_key] = [writes |-> @.writes + 1, rows |-> rows]]
WriteCsv(project_key, rows) ==
    [reports EXCEPT ![project_key] = [writes |-> @.writes + 1, rows |-> rows]]

project_key == projects[idx].key

\* The trace of a call records the kind of each request and write in order,
\* consecutive requests of one kind once.
Logged(trace, what) ==
    IF trace # <<>> /\ trace[Len(trace)] = what THEN trace ELSE Append(trace, what)

Range(seq) == { seq[n] : n \in 1..Len(seq) }

\* ----------------------------------------------------------------- main
\* Lines 154-157 and main line 554: dc_list_projects raises (or dc_get did)
\* and main, which catches nothing, ends with the exception.
FailedDiscoveryGoesOn == "main_loop"
AfterFailedDiscovery == "crashed"

\* Line 568: the list the resume key is looked up in is `projects`, the run
\* list left by the allow-list (556-563), not all_projects.
ResumeListUnfiltered(all_projects, run) == all_projects
ResumeList(all_projects, run) == run

\* main line 554, dc_list_projects lines 138-157: one request of the version
\* loop. A transport exception leaves dc_list_projects at once; a status other
\* than 200 moves on to the next version, and raises after the last one.
\* On a 200, main lines 556-576 derive the run list and the index to start
\* at from the arguments; an allow-list that matches nothing ends the run.
\* disc records each request with the version asked and the answer.
DiscoverProjects ==
    /\ pc = "main_discover"
    /\ \E resp \in ProjectResponses :
         /\ disc' = Append(disc, [ver |-> Versions[ver], resp |-> resp])
         /\ IF resp.raised
            THEN pc' = AfterFailedDiscovery /\ UNCHANGED <<ver, projects, idx>>
            ELSE IF resp.status = 200
            THEN /\ projects' = FilterOnly(ParseProjects(resp.body), args.only)
                 /\ idx' = StartIndex(ResumeList(ParseProjects(resp.body), projects'),
                                       args.resume_from) + 1
                 /\ pc' = IF args.only # {} /\ projects' = <<>>
                          THEN "main_exit" ELSE "main_loop"
                 /\ UNCHANGED ver
            ELSE IF ver < Len(Versions)
            THEN ver' = ver + 1 /\ UNCHANGED <<pc, projects, idx>>
            ELSE pc' = AfterFailedDiscovery /\ UNCHANGED <<ver, projects, idx>>
    /\ UNCHANGED <<args, reports, failed, processed, eventsLeft, frame, req, call>>

\* main lines 578-583: the next iteration calls process_project. The
\* requests of dc_list_projects are history by then.
CallProcessProject ==
    /\ pc = "main_loop"
    /\ idx =< Len(projects)
    /\ pc' = "project_exists"
    /\ frame' = BlankFrame
    /\ processed' = Append(processed, project_key)
    /\ disc' = <<>>
    /\ UNCHANGED <<args, ver, projects, idx, reports, failed, eventsLeft, req, call>>

\* main line 578: the loop is exhausted.
MainExit ==
    /\ pc = "main_loop"
    /\ idx > Len(projects)
    /\ pc' = "main_exit"
    /\ disc' = <<>>
    /\ UNCHANGED <<args, ver, projects, idx, reports, failed, processed, eventsLeft, frame, req,
                   call>>

\* process_project returns to main's loop; its locals are gone.
ReturnToMain ==
    /\ pc = "returned"
    /\ idx' = idx + 1
    /\ pc' = "main_loop"
    /\ frame' = BlankFrame
    /\ UNCHANGED <<args, ver, projects, reports, failed, processed, eventsLeft, req, disc, call>>

\* ------------------------------------------------------ process_project
\* A printed line: what it says and the issue or project it names.
\*   292 "check_transport"   300 "check_status"    306 "not_found"
\*   385 "skipped_absent"    396 "no_issues"       421 "dc_error"
\*   428 "no_transitions"    448 "cloud_error"     499 "project_error"
\*   525 "wrote_csv"
Line(what, who) == <<[line |-> what, who |-> who]>>

\* Lines 497-500: an exception escaped the try block at `where`.
ProjectError(f, where) ==
    /\ frame' = [f EXCEPT !.outcome = "failed", !.raisedAt = where,
                          !.trace = Logged(@, "write_csv"),
                          !.log = @ \o Line("project_error", project_key)
                                   \o Line("wrote_csv", project_key)]
    /\ reports' = WriteCsv(project_key, ErrorReportRows(f.missing_rows))
    /\ failed' = failed \cup {project_key}
    /\ pc' = "returned"

\* A branch of process_project that writes an empty report and returns
\* (lines 384-389, 395-401, 427-433).
EmptyReport(f, why) ==
    /\ frame' = [f EXCEPT !.outcome = why, !.trace = Logged(@, "write_csv"),
                          !.log = IF why = "absent"
                                  THEN @ \o Line("wrote_csv", project_key)
                                         \o Line("skipped_absent", project_key)
                                  ELSE @ \o Line(why, project_key)
                                         \o Line("wrote_csv", project_key)]
    /\ reports' = WriteCsv(project_key, <<>>)

\* cloud_project_exists, lines 291-306: what it prints after a lookup that
\* makes it return False.
CheckLinesSilentOnStatus(o, who) ==
    IF o.raised THEN Line("check_transport", who)
    ELSE IF o.status = 404 THEN Line("not_found", who)
    ELSE <<>>
CheckLines(o, who) ==
    IF o.raised THEN Line("check_transport", who)
    ELSE IF o.status = 404 THEN Line("not_found", who)
    ELSE Line("check_status", who)

\* Lines 383-389 with cloud_project_exists (282-307): one lookup of the loop
\* over (project_key, project_id), and the branch taken once it has decided.
LookupProject ==
    /\ pc = "project_exists"
    /\ \E o \in HttpOutcomes :
         LET n == Len(frame.lookups) + 1
             verdict == LookupVerdict(o)
             f1 == [frame EXCEPT
                      !.lookups = Append(@, [identifier |-> Identifiers[n],
                                             raised |-> o.raised, status |-> o.status]),
                      !.trace = Logged(@, "cloud_project")]
         IN IF verdict = "next" /\ n < Len(Identifiers)
            THEN frame' = f1 /\ UNCHANGED <<pc, reports>>
            ELSE IF verdict = "present"
            THEN /\ frame' = [f1 EXCEPT !.exists = "present"]
                 /\ pc' = AfterPresence(TRUE)
                 /\ UNCHANGED reports
            ELSE /\ EmptyReport([f1 EXCEPT !.exists = "absent",
                                           !.log = @ \o CheckLines(o, project_key)],
                                "absent")
                 /\ pc' = AfterPresence(FALSE)
    /\ UNCHANGED <<args, ver, projects, idx, failed, processed, eventsLeft, req, disc, call>>

\* Lines 391-401 with dc_search_issue_keys_for_project (179-206): one page of
\* the search, and the branch taken when the search returns or raises.
SearchPage ==
    /\ pc = "search"
    /\ \E page \in SearchPages(frame.start_at) :
         LET f1 == [frame EXCEPT !.lookups = <<>>,
                                 !.searchPages = @ + 1, !.lastSearch = Response(page),
                                 !.trace = Logged(@, "dc_search")]
             ks == frame.keys \o page.issues
             f2 == [f1 EXCEPT !.keys = ks, !.start_at = @ + Len(page.issues)]
         IN /\ (frame.searchPages + 1 >= MaxPages)
                  => (Failed(page) \/ SearchEnds(page, frame.start_at))
            /\ IF SearchFailed(page)
               THEN ProjectError(f1, "search")
               ELSE /\ UNCHANGED failed
                    /\ IF ~SearchEnds(page, frame.start_at)
                       THEN frame' = f2 /\ UNCHANGED <<pc, reports>>
                       ELSE IF ks = <<>>
                       THEN /\ EmptyReport([f2 EXCEPT !.start_at = 0, !.searchPages = 0],
                                            "no_issues")
                            /\ pc' = "returned"
                       ELSE /\ frame' = [f2 EXCEPT !.issue_keys = ks, !.i = 1,
                                                   !.keys = <<>>, !.start_at = 0,
                                                   !.searchPages = 0]
                            /\ pc' = "dc_loop"
                            /\ UNCHANGED reports
    /\ UNCHANGED <<args, ver, projects, idx, processed, eventsLeft, req, disc, call>>

\* Lines 420-425: the index of the next issue after one whose source fetch
\* raised (`continue`), n being the number of issues.
BreakAfterFailedIssue(i, n) == n + 1
AfterFailedIssue(i, n) == i + 1

\* Lines 410-433 with dc_iter_status_changes (209-276): one request of the
\* version loop for issue_keys[i]. A 200 ends the version loop and the
\* retained events are appended; an exception, or a status other than 200 from
\* the last version, is caught at line 420 and the issue is skipped. After the
\* last issue, lines 427-433 decide whether there is anything to compare.
\* dcLog holds the requests of the version loop of the issue fetched last,
\* while the loop over the issues runs.
FetchDcIssue ==
    /\ pc = "dc_loop"
    /\ \E resp \in DcFetchOutcomes :
         LET key == frame.issue_keys[frame.i]
             it == resp.it
             events == it.events
             kept == RetainedEvents(events)
             f1 == [frame EXCEPT
                      !.trace = Logged(@, "dc_issue"),
                      !.dcLog = (IF frame.dcVer = 1 THEN <<>> ELSE @)
                                \o <<[ver |-> Versions[frame.dcVer],
                                      raised |-> resp.raised, status |-> resp.status]>>]
             skipped == [f1 EXCEPT !.dcFailed = @ \cup {key}, !.dcVer = 1,
                                   !.log = @ \o Line("dc_error", key)]
             fetched == [f1 EXCEPT
                           !.dc_transitions_by_issue[key] = @ \o kept,
                           !.dcOrder = IF kept # <<>> /\ key \notin Range(@)
                                       THEN Append(@, key) ELSE @,
                           !.dcFetched = @ \cup {key},
                           !.dcVer = 1]
             nextVersion == ~resp.raised /\ resp.status # 200
                            /\ frame.dcVer < Len(Versions)
             ok == ~resp.raised /\ resp.status = 200 /\ ~it.raised
             after == IF ok THEN fetched ELSE skipped
             next == IF ok THEN frame.i + 1
                     ELSE AfterFailedIssue(frame.i, Len(frame.issue_keys))
         IN /\ Len(events) =< eventsLeft
            /\ eventsLeft' = eventsLeft - Len(events)
            /\ IF nextVersion
               THEN frame' = [f1 EXCEPT !.dcVer = @ + 1] /\ UNCHANGED <<pc, reports>>
               ELSE IF next =< Len(frame.issue_keys)
               THEN frame' = [after EXCEPT !.i = next] /\ UNCHANGED <<pc, reports>>
               ELSE IF after.dcOrder = <<>>
               THEN /\ EmptyReport([after EXCEPT !.dcLog = <<>>], "no_transitions")
                    /\ pc' = "returned"
               ELSE /\ frame' = [after EXCEPT !.i = 1, !.dcLog = <<>>]
                    /\ pc' = "cloud_loop"
                    /\ UNCHANGED reports
    /\ UNCHANGED <<args, ver, projects, idx, failed, processed, req, disc, call>>

CloudIssueId == "90001"

\* GET /rest/api/3/issue/{key}?fields=id
IdOutcomes == {Ok} \cup Failures

\* Lines 455-458: after the last issue of the target loop comes the
\* comparison.
AfterCloudLoopRefetchesSource == "dc_loop"
AfterCloudLoop == "compare"

\* Lines 439-453 with cloud_fetch_status_pairs (310-353) and
\* Lines 439-441: the keys the target loop runs over, those of
\* dc_transitions_by_issue in insertion order.
CloudLoopOverAllIssues(f) == f.issue_keys
CloudLoopKeys(f) == f.dcOrder

\* cloud_get_issue_id (356-373): the target fetch of dcOrder[i]. r is how the
\* pair fetch ended, o the outcome of the id request that follows a pair
\* fetch that returned.
FetchCloudIssue ==
    /\ pc = "cloud_loop"
    /\ \E r \in CloudFetchOutcomes, o \in IdOutcomes :
         LET key == CloudLoopKeys(frame)[frame.i]
             f1 == [frame EXCEPT !.trace = Logged(@, "cloud_changelog"),
                                 !.cloudAsked = @ \cup {key}]
             f2 == [f1 EXCEPT !.trace = Logged(@, "cloud_issue_id"),
                              !.idAsked = @ \cup {key}]
             after ==
                 IF r.raised
                 THEN [f1 EXCEPT !.cloud_cache[key] = CacheAfterPairsError(r.pairs),
                                 !.cloud_issue_id_map[key] = "",
                                 !.log = @ \o Line("cloud_error", key),
                                 !.cloudFail[key] = "pairs",
                                 !.cloudPartial = r.pairs]
                 ELSE IF Failed(o)
                 THEN [f2 EXCEPT !.cloud_cache[key] = CacheAfterIdError(Some(r.pairs)),
                                 !.cloud_issue_id_map[key] = "",
                                 !.log = @ \o Line("cloud_error", key),
                                 !.cloudFail[key] = "id",
                                 !.cloudPartial = r.pairs]
                 ELSE [f2 EXCEPT !.cloud_cache[key] = Some(r.pairs),
                                 !.cloud_issue_id_map[key] = CloudIssueId]
         IN IF frame.i < Len(CloudLoopKeys(frame))
            THEN frame' = [after EXCEPT !.i = @ + 1] /\ UNCHANGED pc
            ELSE frame' = [after EXCEPT !.i = 1] /\ pc' = AfterCloudLoop
    /\ UNCHANGED <<args, ver, projects, idx, reports, failed, processed, eventsLeft, req, disc, call>>

\* Lines 455-500: the comparison loop and the report, or the except clause
\* when line 488 raised.
CompareAndWrite ==
    /\ pc = "compare"
    /\ LET res == CompareLoop(frame.dcOrder, 1, frame.dc_transitions_by_issue,
                              frame.cloud_cache, frame.cloud_issue_id_map, <<>>)
           f1 == [frame EXCEPT !.missing_rows = res.rows]
       IN IF res.raised
          THEN ProjectError(f1, "compare")
          ELSE /\ frame' = [f1 EXCEPT !.outcome = "compared",
                                      !.trace = Logged(@, "write_csv"),
                                      !.log = @ \o Line("wrote_csv", project_key)]
               /\ reports' = WriteCsv(project_key, res.rows)
               /\ pc' = "returned"
               /\ UNCHANGED failed
    /\ UNCHANGED <<args, ver, projects, idx, processed, eventsLeft, req, disc, call>>

Next ==
    \/ DiscoverProjects
    \/ CallProcessProject
    \/ MainExit
    \/ ReturnToMain
    \/ LookupProject
    \/ SearchPage
    \/ FetchDcIssue
    \/ FetchCloudIssue
    \/ CompareAndWrite

Spec == Init /\ [][Next]_vars

\* ------------------------------------------- _request_with_retries, stepwise
\* The helper is entered through dc_get or cloud_get (lines 105-128).
Callers == {"dc_get", "cloud_get"}

RetryInit ==
    /\ pc = "request"
    /\ ver = 1
    /\ projects = <<>>
    /\ idx = 0
    /\ reports = [p \in ProjectKeys |-> NoReport]
    /\ failed = {}
    /\ processed = <<>>
    /\ eventsLeft = MaxEvents
    /\ frame = BlankFrame
    /\ \E c \in Callers :
         req = [caller |-> c, state |-> "running", attempt |-> 1, log |-> <<>>,
                sleeps |-> <<>>, status |-> 0]
    /\ disc = <<>>
    /\ args = NoArgs
    /\ call = IdleCall

\* Lines 61-98: one attempt; the server answers it with outcome o.
Attempt ==
    /\ req.state = "running"
    /\ \E o \in AttemptOutcomes :
         LET step == AttemptStep(req.attempt, o)
         IN req' = [req EXCEPT
                      !.state = CASE step = "retry" -> "running"
                                  [] step = "return" -> "returned"
                                  [] OTHER -> "raised",
                      !.attempt = IF step = "retry" THEN @ + 1 ELSE @,
                      !.log = Append(@, o),
                      !.sleeps = IF step = "retry"
                                 THEN Append(@, SleepAfter(req.attempt)) ELSE @,
                      !.status = o]
    /\ UNCHANGED <<args, pc, ver, projects, idx, reports, failed, processed, eventsLeft, frame,
                   disc, call>>

RetryNext == Attempt

SpecRetry == RetryInit /\ [][RetryNext]_vars

\* ------------------------- dc_search_issue_keys_for_project, against a feed
\* A source feed answers every search request with a 200 page. The n-th issue
\* of the project (ORDER BY key ASC) is written n.
\*   "slices": the feed holds n issues and serves those from startAt on, at
\*             most page_size of them, with total = n;
\*   "any"   : the feed serves up to page_size issues from startAt on, or
\*             none, with any total up to n or without a total.
Feeds ==
    { [kind |-> "slices", n |-> n, page_size |-> k] :
        n \in 0..MaxFeed, k \in 1..MaxPageSize }
    \cup { [kind |-> "any", n |-> t, page_size |-> k] :
              t \in 0..MaxTotal, k \in 1..MaxPageSize }

Min(a, b) == IF a < b THEN a ELSE b
Max(a, b) == IF a < b THEN b ELSE a

FeedPage(startAt, len, total) ==
    [raised |-> FALSE, status |-> 200,
     issues |-> [i \in 1..len |-> startAt + i], total |-> total]

FeedPages(feed, startAt) ==
    IF feed.kind = "slices"
    THEN { FeedPage(startAt, Max(0, Min(feed.page_size, feed.n - startAt)), feed.n) }
    ELSE { FeedPage(startAt, len, t) :
             len \in 0..feed.page_size, t \in {NoTotal} \cup 0..feed.n }

\* Lines 176-177: the locals of a call of the search, with its feed. asked
\* records each request: its startAt, the keys it got and the total it got.
SearchCall(feed) ==
    [fn |-> "dc_search", feed |-> feed, state |-> "running",
     keys |-> <<>>, start_at |-> 0, asked |-> <<>>]

SearchInit ==
    /\ pc = "search_call"
    /\ ver = 1
    /\ projects = <<>>
    /\ idx = 0
    /\ reports = [p \in ProjectKeys |-> NoReport]
    /\ failed = {}
    /\ processed = <<>>
    /\ eventsLeft = MaxEvents
    /\ frame = BlankFrame
    /\ req = IdleReq
    /\ disc = <<>>
    /\ args = NoArgs
    /\ \E feed \in Feeds : call = SearchCall(feed)

\* Lines 179-206: one iteration of the while loop.
SearchRequest ==
    /\ call.fn = "dc_search"
    /\ call.state = "running"
    /\ \E page \in FeedPages(call.feed, call.start_at) :
         LET asked == Append(call.asked, [startAt |-> call.start_at,
                                          got |-> Len(page.issues),
                                          total |-> page.total])
         IN call' =
              IF SearchFailed(page)
              THEN [call EXCEPT !.state = "raised", !.asked = asked]
              ELSE [call EXCEPT
                      !.state = IF SearchEnds(page, call.start_at)
                                THEN "returned" ELSE "running",
                      !.keys = @ \o page.issues,
                      !.start_at = @ + Len(page.issues),
                      !.asked = asked]
    /\ UNCHANGED <<args, pc, ver, projects, idx, reports, failed, processed, eventsLeft, frame,
                   req, disc>>

SearchNext == SearchRequest

SpecSearch == SearchInit /\ [][SearchNext]_vars

\* ------------------------------- cloud_fetch_status_pairs, page by page
\* Lines 316-319: the locals of a call of the pair fetch. asked records each
\* request: its startAt and the page it was answered with.
PairsCall == [fn |-> "cloud_pairs", s |-> PairsStart, asked |-> <<>>]

PairsInit ==
    /\ pc = "pairs_call"
    /\ ver = 1
    /\ projects = <<>>
    /\ idx = 0
    /\ reports = [p \in ProjectKeys |-> NoReport]
    /\ failed = {}
    /\ processed = <<>>
    /\ eventsLeft = MaxEvents
    /\ frame = BlankFrame
    /\ req = IdleReq
    /\ disc = <<>>
    /\ args = NoArgs
    /\ call = PairsCall

\* Lines 321-351: one iteration of the while loop; the server may answer
\* with any page. The run is followed for MaxPages requests.
PairsRequest ==
    /\ call.fn = "cloud_pairs"
    /\ call.s.exit = "loop"
    /\ Len(call.asked) < MaxPages
    /\ \E page \in CloudPages :
         call' = [call EXCEPT
                    !.s = PairsStep(@, page),
                    !.asked = Append(@, [startAt |-> call.s.start_at, page |-> page])]
    /\ UNCHANGED <<args, pc, ver, projects, idx, reports, failed, processed, eventsLeft, frame,
                   req, disc>>

PairsNext == PairsRequest

SpecPairs == PairsInit /\ [][PairsNext]_vars

\* ------------------------ one issue, from its changelogs to its drift rows
\* The source answers the changelog request of the issue with `data`; the
\* target holds the histories `target` and serves them `size` to a page.
SourceItems ==
    { Item("status", "Open", "Done"), Item("status", "Open", "In Progress"),
      Item("status", NoName, "Done"), Item("status", "Open", NoName),
      Item("assignee", "Open", "Done") }

SourceHistories ==
    SeqsUpTo({ History(FullAuthor, <<it>>) : it \in SourceItems }, MaxEvents)
    \cup { <<History(a, items)>> :
             a \in AuthorObjects,
             items \in { <<Item("status", "Open", "Done")>>,
                         <<Item("status", NoName, "Done")>>,
                         <<Item("assignee", "Open", "Done"),
                           Item("status", "Done", "Open")>> } }

SourceData ==
    { [id |-> DcIssueId, histories |-> hs, total |-> t] :
        hs \in SourceHistories, t \in {NoTotal, 0, MaxTotal} }

TargetHistories ==
    SeqsUpTo(CloudHistories \cup { <<Item("status", "Done", "Open")>> }, MaxPages)

\* GET /rest/api/3/issue/{key}/changelog?startAt=..: the page of a target
\* that reports its total.
TargetPage(target, startAt, size) ==
    [raised |-> FALSE, status |-> 200,
     values |-> SubSeq(target, startAt + 1, Min(startAt + size, Len(target))),
     histories |-> <<>>, total |-> Len(target), isLast |-> "absent"]

\* cloud_fetch_status_pairs, lines 317-353: the while loop against that
\* target, from the locals s.
RECURSIVE FetchStatusPairs(_, _, _)
FetchStatusPairs(s, target, size) ==
    LET t == PairsStep(s, TargetPage(target, s.start_at, size))
    IN IF t.exit = "loop" THEN FetchStatusPairs(t, target, size) ELSE t

\* process_project for one issue: the events of the source (line 412), those
\* retained (413-417), the pairs of the target (443) and the rows of the
\* comparison (468-489). An issue whose generator raised is skipped (420-425).
ProcessIssue(key, server) ==
    LET it == IterStatusChanges(server.data)
        kept == RetainedEvents(it.events)
        fetch == FetchStatusPairs(PairsStart, server.target, server.size)
        res == CompareEntries(key, kept, fetch.pairs, server.data.id,
                              server.cloud_id, <<>>)
    IN [raised |-> it.raised, warned |-> it.warned, events |-> it.events,
        kept |-> IF it.raised THEN <<>> ELSE kept,
        pairs |-> fetch.pairs,
        rows |-> IF it.raised THEN <<>> ELSE res.rows]

\* The servers the issue is processed against, one after the other: the one
\* drawn, then servers that differ from it in one respect only.
Variants == <<"as_drawn", "other_ids", "reordered", "paged", "repeated">>

OtherId(id) == IF id = NoName THEN NoName ELSE IF id = "1" THEN "7" ELSE "1"

WithOtherIds(data) ==
    [data EXCEPT !.histories =
        [h \in DOMAIN @ |->
            [@[h] EXCEPT !.items =
                [n \in DOMAIN @ |->
                    [@[n] EXCEPT !.from = OtherId(@), !.to = OtherId(@)]]]]]

Reverse(seq) == [n \in 1..Len(seq) |-> seq[Len(seq) + 1 - n]]

Server(variant, data, target) ==
    [data |-> IF variant = "other_ids" THEN WithOtherIds(data) ELSE data,
     target |-> IF variant = "reordered" THEN Reverse(target)
                ELSE IF variant = "repeated" THEN target \o target
                ELSE target,
     size |-> IF variant = "paged" THEN 1 ELSE Max(1, Len(target)),
     cloud_id |-> CloudIssueId]

IssueCall(data, target) ==
    [fn |-> "issue", key |-> IssueKeyList[1], data |-> data, target |-> target,
     runs |-> <<>>]

IssueInit ==
    /\ pc = "issue_call"
    /\ ver = 1
    /\ projects = <<>>
    /\ idx = 0
    /\ reports = [p \in ProjectKeys |-> NoReport]
    /\ failed = {}
    /\ processed = <<>>
    /\ eventsLeft = MaxEvents
    /\ frame = BlankFrame
    /\ req = IdleReq
    /\ disc = <<>>
    /\ args = NoArgs
    /\ \E data \in SourceData, target \in TargetHistories :
         call = IssueCall(data, target)

\* The issue is processed against the next server.
CompareIssue ==
    /\ pc = "issue_call"
    /\ call.fn = "issue"
    /\ Len(call.runs) < Len(Variants)
    /\ call' = [call EXCEPT !.runs =
                  Append(@, ProcessIssue(call.key,
                                Server(Variants[Len(@) + 1], call.data, call.target)))]
    /\ UNCHANGED <<args, pc, ver, projects, idx, reports, failed, processed, eventsLeft,
                   frame, req, disc>>

IssueNext == CompareIssue

SpecIssue == IssueInit /\ [][IssueNext]_vars

\* ------------------------------- main with its arguments, project by project
\* The arguments main may be started with.
AllowLists == { {}, {"alpha"}, {"Beta", "ALPHA"}, {"gamma", "beta", "ZETA"}, {"ZETA"} }
ResumeKeys == { NoName, "ALPHA", "alpha", "beta", "BETA", "Gamma", "ZETA" }
MainArgs == { [only |-> o, resume_from |-> r] : o \in AllowLists, r \in ResumeKeys }

\* What the answers of the two servers make of a project: the rows
\* process_project writes for it.
SomeRows ==
    <<Row(IssueKeyList[1],
          StatusEvents(<<History(FullAuthor, <<Item("status", "Open", "Done")>>)>>,
                       DcIssueId)[1],
          DcIssueId, CloudIssueId)>>
Served == [ProjectKeys -> {<<>>, SomeRows}]

MainCall(served) == [fn |-> "main", served |-> served]

MainInit ==
    /\ pc = "main_discover"
    /\ ver = 1
    /\ projects = <<>>
    /\ idx = 0
    /\ reports = [p \in ProjectKeys |-> NoReport]
    /\ failed = {}
    /\ processed = <<>>
    /\ eventsLeft = MaxEvents
    /\ frame = BlankFrame
    /\ req = IdleReq
    /\ disc = <<>>
    /\ args \in MainArgs
    /\ \E served \in Served : call = MainCall(served)

\* process_project (lines 379-500) as one step: it writes the report the
\* servers' answers for the project lead to, and returns.
ProcessProjectWhole ==
    /\ pc = "project_exists"
    /\ call.fn = "main"
    /\ reports' = WriteCsv(project_key, call.served[project_key])
    /\ pc' = "returned"
    /\ UNCHANGED <<args, ver, projects, idx, failed, processed, eventsLeft, frame, req,
                   disc, call>>

MainNext ==
    \/ DiscoverProjects
    \/ CallProcessProject
    \/ MainExit
    \/ ReturnToMain
    \/ ProcessProjectWhole

SpecMain == MainInit /\ [][MainNext]_vars

\* ------------------------------------------------------------------ claims
\* process_project stands at its return: the report of the current project
\* is written and the locals of the call are still in place.
AtReturn == pc = "returned"

TheReport == reports[project_key]
EmptyOnce == [writes |-> 1, rows |-> <<>>]

\* The rows of the current project's report that belong to issue `key`.
RowsOf(key) ==
    LET OfKey(row) == row.issueKey = key
    IN SelectSeq(TheReport.rows, OfKey)

\* The transition column of a row for the names f and t, and a status column
\* for a name and an id (an id that is missing shows as None).
Arrow(f, t) == f \o " → " \o t
Shown(name, id) == name \o " (" \o (IF id = NoName THEN "None" ELSE id) \o ")"

\* The row a report is expected to hold for the source event e of issue key,
\* when the ids fetched for the issue are dc_id and cloud_id.
ExpectedRow(key, e, dc_id, cloud_id) ==
    [issueKey |-> key, dc_issue_id |-> dc_id, cloud_issue_id |-> cloud_id,
     transition |-> Arrow(e.from, e.to),
     from_status |-> Shown(e.from, e.fromId), to_status |-> Shown(e.to, e.toId),
     author |-> e.author, timestamp |-> e.timestamp,
     changegroup_Id |-> e.changegroup_Id, changeitem_Id |-> e.changegroup_Id]

\* The events of `entries` whose pair is not in `pairs`, as rows, in order.
RECURSIVE MissingOf(_, _, _)
MissingOf(key, entries, pairs) ==
    IF entries = <<>> THEN <<>>
    ELSE (IF <<Head(entries).from, Head(entries).to>> \in pairs
          THEN <<>>
          ELSE <<ExpectedRow(key, Head(entries), DcIssueId,
                             frame.cloud_issue_id_map[key])>>)
         \o MissingOf(key, Tail(entries), pairs)

StatusNames == {"Open", "Done", NoName, Unhashable}

\* C1: an issue whose target pair fetch failed, on the first page or on a
\* later one, has no row in the report of its project.
C1_FailedPairFetchNoRows ==
    AtReturn =>
        \A key \in IssueKeys : frame.cloudFail[key] = "pairs" => RowsOf(key) = <<>>

\* The pair fetch of the only failing issue raised on a later page, holding
\* pairs of earlier pages that do not cover all of the issue's events; the
\* project was compared and the issue has no row.
C1_Witness ==
    /\ AtReturn
    /\ frame.outcome = "compared"
    /\ \E key \in IssueKeys :
         /\ frame.cloudFail[key] = "pairs"
         /\ \A other \in IssueKeys \ {key} : frame.cloudFail[other] = "none"
         /\ frame.cloudPartial # {}
         /\ \E n \in 1..Len(frame.dc_transitions_by_issue[key]) :
              LET e == frame.dc_transitions_by_issue[key][n]
              IN <<e.from, e.to>> \notin frame.cloudPartial
         /\ RowsOf(key) = <<>>

\* C2: for an issue whose target fetch succeeded, the report holds, for every
\* (from, to), as many rows as the issue has retained source events with that
\* pair when the pair is not in the target pair set, and none when it is.
C2_OneRowPerMissingEvent ==
    (AtReturn /\ frame.outcome = "compared") =>
        \A key \in Range(frame.dcOrder) :
            frame.cloudFail[key] = "none" =>
                \A f \in StatusNames, t \in StatusNames :
                    LET IsEvent(e) == e.from = f /\ e.to = t
                        IsRow(r) == r.issueKey = key /\ r.transition = Arrow(f, t)
                        events == SelectSeq(frame.dc_transitions_by_issue[key], IsEvent)
                    IN Len(SelectSeq(TheReport.rows, IsRow)) =
                           IF <<f, t>> \in frame.cloud_cache[key].pairs
                           THEN 0 ELSE Len(events)

\* Two identical events of an issue are missing from a non-empty target pair
\* set and the report has two rows for them.
C2_Witness ==
    /\ AtReturn
    /\ frame.outcome = "compared"
    /\ \E key \in IssueKeys :
         /\ frame.cloudFail[key] = "none"
         /\ frame.cloud_cache[key].pairs # {}
         /\ Len(frame.dc_transitions_by_issue[key]) = 2
         /\ frame.dc_transitions_by_issue[key][1] = frame.dc_transitions_by_issue[key][2]
         /\ Len(RowsOf(key)) = 2

\* C3: an issue whose pair fetch returned but whose internal-id fetch failed
\* is excluded like one whose pair fetch failed: its cloud_cache entry is
\* None, its id is empty and it has no row.
C3_FailedIdFetchExcludesIssue ==
    \A key \in IssueKeys :
        frame.cloudFail[key] = "id" =>
            /\ frame.cloud_cache[key] = None
            /\ frame.cloud_issue_id_map[key] = ""
            /\ AtReturn => RowsOf(key) = <<>>

\* The id fetch of the only failing issue failed after a pair fetch that
\* returned pairs not covering all of its events; the project was compared.
C3_Witness ==
    /\ AtReturn
    /\ frame.outcome = "compared"
    /\ \E key \in IssueKeys :
         /\ frame.cloudFail[key] = "id"
         /\ \A other \in IssueKeys \ {key} : frame.cloudFail[other] = "none"
         /\ \E n \in 1..Len(frame.dc_transitions_by_issue[key]) :
              LET e == frame.dc_transitions_by_issue[key][n]
              IN <<e.from, e.to>> \notin frame.cloudPartial
         /\ RowsOf(key) = <<>>

\* An issue whose source or target fetch failed in the current call.
FetchFailed(key) == key \in frame.dcFailed \/ frame.cloudFail[key] # "none"

\* C4: a failed source or target fetch of one issue does not end the project
\* in the except clause, and every other issue whose fetches succeeded has
\* exactly the rows its own events and its own pair set give.
C4_IssueIsolation ==
    (AtReturn /\ \E key \in IssueKeys : FetchFailed(key)) =>
        /\ frame.raisedAt \in {"none", "compare"}
        /\ frame.outcome = "compared" =>
             \A key \in IssueKeys :
                 ~FetchFailed(key) =>
                     RowsOf(key) = MissingOf(key, frame.dc_transitions_by_issue[key],
                                             frame.cloud_cache[key].pairs)

\* The target fetch of the first issue failed and the second issue, fetched
\* after it, has its rows in the report.
C4_Witness ==
    /\ AtReturn
    /\ frame.outcome = "compared"
    /\ Len(frame.dcOrder) = 2
    /\ frame.cloudFail[frame.dcOrder[1]] # "none"
    /\ ~FetchFailed(frame.dcOrder[2])
    /\ RowsOf(frame.dcOrder[2]) # <<>>

RunList == [n \in 1..Len(projects) |-> projects[n].key]

\* C5: a project that ends in the except clause has a report with headers
\* only, whatever rows were computed before; and a run in which that happened
\* still calls process_project for every project of the run list, in order,
\* each report being written once.
C5_ProjectIsolation ==
    /\ (AtReturn /\ frame.raisedAt # "none") => TheReport = EmptyOnce
    /\ \A p \in failed : reports[p] = EmptyOnce
    /\ (pc = "main_exit" /\ failed # {}) =>
           /\ processed = RunList
           /\ \A p \in Range(RunList) : reports[p].writes = 1

\* The first project failed, the run went on to the second, which raised in
\* the comparison after rows had been computed, and its report is empty.
C5_Witness ==
    /\ AtReturn
    /\ idx = 2
    /\ projects[1].key \in failed
    /\ frame.raisedAt = "compare"
    /\ frame.missing_rows # <<>>
    /\ TheReport = EmptyOnce

RequestKinds == Range(frame.trace)

\* C6: when a page of the source search failed, process_project returns with
\* no issue key kept, an empty report and no changelog request made; and the
\* run still reaches every project after it.
C6_SearchFailureAbortsProject ==
    /\ Failed(frame.lastSearch) =>
           /\ AtReturn
           /\ frame.outcome = "failed"
           /\ frame.issue_keys = <<>>
           /\ TheReport = EmptyOnce
           /\ RequestKinds = {"cloud_project", "dc_search", "write_csv"}
    /\ (pc = "main_loop" /\ failed # {}) => Len(processed) = idx - 1
    /\ pc = "main_exit" => Len(processed) = Len(projects)

\* The search of the first project failed on a later page, after a page that
\* had returned keys.
C6_Witness ==
    /\ AtReturn
    /\ idx = 1
    /\ Failed(frame.lastSearch)
    /\ frame.keys # <<>>
    /\ frame.issue_keys = <<>>

\* C7: when the presence check concluded that the project is absent,
\* process_project returns with an empty report, having made no request but
\* the presence lookups.
C7_AbsentProjectEmptyReport ==
    frame.exists = "absent" =>
        /\ AtReturn
        /\ TheReport = EmptyOnce
        /\ frame.trace = <<"cloud_project", "write_csv">>

C7_Witness ==
    /\ AtReturn
    /\ frame.exists = "absent"
    /\ frame.outcome = "absent"
    /\ TheReport = EmptyOnce

Status(lookup, code) == ~lookup.raised /\ lookup.status = code

\* C8: the first lookup is by key and the second by id; a 200 by key gives
\* present with no second lookup; a 404 by key is followed by the lookup by
\* id, whose 200 gives present and whose 404 gives absent.
C8_KeyThenId ==
    LET l == frame.lookups
    IN (l # <<>> /\ frame.exists # "unknown") =>
          /\ l[1].identifier = "key"
          /\ Status(l[1], 200) => (Len(l) = 1 /\ frame.exists = "present")
          /\ Status(l[1], 404) =>
                 /\ Len(l) = 2
                 /\ l[2].identifier = "id"
                 /\ Status(l[2], 200) => frame.exists = "present"
                 /\ Status(l[2], 404) => frame.exists = "absent"

C8_Witness ==
    /\ Len(frame.lookups) = 2
    /\ Status(frame.lookups[1], 404)
    /\ Status(frame.lookups[2], 200)
    /\ frame.exists = "present"
    /\ pc = "search"

\* C9: a lookup that ends in anything but a 200 or a 404 is the last lookup
\* of the check, which returns absent; the project gets an empty report
\* outside the except clause and process_project returns.
Unverifiable(lookup) == lookup.raised \/ lookup.status \notin {200, 404}

C9_UnverifiableIsAbsent ==
    \A n \in 1..Len(frame.lookups) :
        Unverifiable(frame.lookups[n]) =>
            /\ n = Len(frame.lookups)
            /\ frame.exists = "absent"
            /\ AtReturn
            /\ TheReport = EmptyOnce
            /\ frame.raisedAt = "none"
            /\ project_key \notin failed

\* The lookup by key was answered 403: no lookup by id, the project is absent.
C9_Witness ==
    /\ Len(frame.lookups) = 1
    /\ Status(frame.lookups[1], 403)
    /\ frame.exists = "absent"
    /\ AtReturn
    /\ TheReport = EmptyOnce

\* C10: one request makes at most max_retries attempts; every attempt but the
\* last ended in a transport exception, a 429 or a 5xx; and an attempt that
\* received any other status is the last one and its response is returned.
C10_BoundedRetries ==
    /\ Len(req.log) =< max_retries
    /\ req.attempt =< max_retries
    /\ \A n \in 1..Len(req.log) :
         LET o == req.log[n]
             retried == o = TransportError \/ o = 429 \/ o \in 500..599
         IN /\ n < Len(req.log) => retried
            /\ ~retried => /\ n = Len(req.log)
                           /\ req.state = "returned"
                           /\ req.status = o

\* A 503 and a transport exception were retried and the third attempt's 404
\* was returned.
C10_Witness ==
    /\ req.state = "returned"
    /\ req.log = <<503, TransportError, 404>>
    /\ req.status = 404

RequestDone == req.state \in {"returned", "raised"}

\* C11: when a request has used up its max_retries attempts, the last attempt
\* decides: a transport exception is raised to the caller, a response - also
\* a 429 or 5xx - is returned with its status and nothing is raised; an
\* exception is raised only by the last attempt.
C11_LastAttemptDecides ==
    /\ (RequestDone /\ Len(req.log) = max_retries) =>
           LET last == req.log[max_retries]
           IN /\ last = TransportError => req.state = "raised"
              /\ last # TransportError => (req.state = "returned" /\ req.status = last)
    /\ req.state = "raised" =>
           (Len(req.log) = max_retries /\ req.log[max_retries] = TransportError)

\* Exception, exception, 503: the 503 is returned.
C11_Witness ==
    /\ req.state = "returned"
    /\ req.log = <<TransportError, TransportError, 503>>
    /\ req.status = 503

RECURSIVE SumSeq(_)
SumSeq(seq) == IF seq = <<>> THEN 0 ELSE Head(seq) + SumSeq(Tail(seq))

\* C12: the n-th sleep of a request, taken between attempt n and attempt
\* n + 1, lasts backoff_factor * n; there is one sleep per attempt that is
\* followed by another and none after the final attempt; the sleeps of one
\* request add up to at most backoff_factor * (1 + ... + (max_retries - 1)).
C12_LinearBackoff ==
    /\ \A n \in 1..Len(req.sleeps) : req.sleeps[n] = backoff_factor * n
    /\ req.state = "running" => Len(req.sleeps) = Len(req.log)
    /\ RequestDone => Len(req.sleeps) = Len(req.log) - 1
    /\ Len(req.sleeps) =< max_retries - 1
    /\ 2 * SumSeq(req.sleeps) =< backoff_factor * (max_retries - 1) * max_retries

\* Three failing attempts: the request slept 2 and then 4, and not after the
\* third.
C12_Witness ==
    /\ RequestDone
    /\ Len(req.log) = max_retries
    /\ req.sleeps = <<2, 4>>

\* The number of an API version path.
VersionNumber(v) == IF v = "2" THEN 2 ELSE 3

\* The requests of the version loop of dc_list_projects, and of the version
\* loop of dc_iter_status_changes for the issue fetched last, as
\* [ver, raised, status].
DiscoveryRequests ==
    [n \in 1..Len(disc) |->
        [ver |-> disc[n].ver, raised |-> disc[n].resp.raised,
         status |-> disc[n].resp.status]]
VersionLoops == {DiscoveryRequests, frame.dcLog}

\* In a version loop a request is made only after requests that were all
\* answered with a status other than 200.
OnlyAfterNon200(log) ==
    \A m \in 1..Len(log) :
        m < Len(log) => (~log[m].raised /\ log[m].status # 200)

\* C13 (as claimed): both version loops go from the newest version to the
\* oldest, a later request being made only after non-200 answers.
C13_NewestFirst ==
    \A log \in VersionLoops :
        /\ \A m \in 1..Len(log) : \A n \in 1..Len(log) :
               m < n => VersionNumber(log[m].ver) > VersionNumber(log[n].ver)
        /\ log # <<>> => log[1].ver = "3"
        /\ OnlyAfterNon200(log)

\* C13 (amended): both version loops go from the oldest version to the
\* newest: version 2 is requested first, and version 3 only after version 2
\* was answered with a status other than 200.
C13_OldestFirst ==
    \A log \in VersionLoops :
        /\ \A m \in 1..Len(log) : \A n \in 1..Len(log) :
               m < n => VersionNumber(log[m].ver) < VersionNumber(log[n].ver)
        /\ log # <<>> => log[1].ver = "2"
        /\ OnlyAfterNon200(log)

\* Discovery asked version 2, got a 404, asked version 3 and got the list.
C13_Witness ==
    /\ pc = "main_loop"
    /\ Len(disc) = 2
    /\ disc[1].ver = "2" /\ disc[1].resp.status = 404
    /\ disc[2].ver = "3" /\ disc[2].resp.status = 200

\* dc_list_projects has just returned to main: its requests are on record.
DiscoveryReturned == pc = "main_loop" /\ disc # <<>>

Answered200(entry) == ~entry.resp.raised /\ entry.resp.status = 200

\* C14: a discovery request answered 200 is the last request of discovery,
\* and the list returned is the body of that answer, in its order, without
\* the entries that lack a key or lack an id and with every other entry.
C14_FirstSuccessWins ==
    /\ \A n \in 1..Len(disc) :
           Answered200(disc[n]) => (n = Len(disc) /\ pc # "main_discover")
    /\ DiscoveryReturned =>
           LET body == disc[Len(disc)].resp.body
               Complete(p) == p.key # NoName /\ p.id # 0
           IN /\ Answered200(disc[Len(disc)])
              /\ projects = SelectSeq(body, Complete)

\* Version 2 answered 200 with a body whose first entry lacks its id: the
\* list returned is the second entry alone.
C14_Witness ==
    /\ DiscoveryReturned
    /\ Len(disc) = 1
    /\ disc[1].resp.body[1].id = 0
    /\ disc[1].resp.body[1].key # NoName
    /\ projects = <<disc[1].resp.body[2]>>

\* Discovery is over and no version answered 200: every version was asked,
\* or a request raised.
NoVersionAnswered200 ==
    /\ disc # <<>>
    /\ \A n \in 1..Len(disc) : ~Answered200(disc[n])
    /\ Len(disc) = Len(Versions) \/ disc[Len(disc)].resp.raised

\* C15: when no discovery request was answered 200 the run has ended with
\* the error, and in a run that ended so no project was handed to
\* process_project, no report was written and no other request was made.
C15_FailedDiscoveryAbortsRun ==
    /\ NoVersionAnswered200 => pc = "crashed"
    /\ pc = "crashed" =>
           /\ NoVersionAnswered200
           /\ projects = <<>>
           /\ processed = <<>>
           /\ \A p \in ProjectKeys : reports[p] = NoReport
           /\ frame = BlankFrame

\* Version 2 answered 404 and version 3 answered 503.
C15_Witness ==
    /\ pc = "crashed"
    /\ Len(disc) = 2
    /\ disc[1].resp.status = 404
    /\ disc[2].resp.status = 503
    /\ processed = <<>>

OnSlices == call.fn = "dc_search" /\ call.feed.kind = "slices"
OnAnyFeed == call.fn = "dc_search" /\ call.feed.kind = "any"

\* The keys the requests before the n-th got.
RECURSIVE GotBefore(_, _)
GotBefore(asked, n) ==
    IF n =< 1 THEN 0 ELSE asked[n - 1].got + GotBefore(asked, n - 1)

\* C16: against a feed of slices of N keys with total = N, every request's
\* startAt is the number of keys received so far, and the search returns the
\* N keys in feed order, each once, after one request per page (one request
\* when N = 0).
C16_SlicesGiveEveryKeyOnce ==
    OnSlices =>
        /\ \A n \in 1..Len(call.asked) :
               call.asked[n].startAt = GotBefore(call.asked, n)
        /\ call.start_at = Len(call.keys)
        /\ call.state # "raised"
        /\ call.state = "returned" =>
               /\ call.keys = [i \in 1..call.feed.n |-> i]
               /\ Len(call.asked) =
                      Max(1, (call.feed.n + call.feed.page_size - 1)
                                 \div call.feed.page_size)

\* Five keys in pages of two: three requests, at 0, 2 and 4, and five keys.
C16_Witness ==
    /\ OnSlices
    /\ call.feed.n = 5 /\ call.feed.page_size = 2
    /\ call.state = "returned"
    /\ call.keys = <<1, 2, 3, 4, 5>>
    /\ Len(call.asked) = 3
    /\ call.asked[1].startAt = 0 /\ call.asked[2].startAt = 2 /\ call.asked[3].startAt = 4

\* The search goes on after the n-th request: the page had keys and a total
\* that the keys received had not reached.
GoesOnAfter(asked, n) ==
    /\ asked[n].got > 0
    /\ asked[n].total # NoTotal
    /\ asked[n].startAt + asked[n].got < asked[n].total

\* C17: whatever 200 pages with totals up to T the feed serves, the search
\* makes a further request only after a page that had keys and a total the
\* keys received had not reached - so an empty page, a page without a total
\* and a page that reaches its total each end it - and it makes at most
\* max(1, T) requests.
C17_SearchTerminates ==
    OnAnyFeed =>
        /\ \A n \in 1..Len(call.asked) :
               (n < Len(call.asked) \/ call.state = "running")
                   <=> GoesOnAfter(call.asked, n)
        /\ call.state = "running" =>
               Len(call.asked) + 1 =< Max(1, call.feed.n)
        /\ Len(call.asked) =< Max(1, call.feed.n)
        /\ call.state # "raised"

\* With totals up to 3, the search made 3 requests and returned.
C17_Witness ==
    /\ OnAnyFeed
    /\ call.feed.n = 3
    /\ call.state = "returned"
    /\ Len(call.asked) = 3

OnPairs == call.fn = "cloud_pairs"

\* The history entries of a page: those under "values", or those under
\* "histories" when "values" is missing or empty.
EntriesOf(page) == IF page.values # <<>> THEN page.values ELSE page.histories

\* C18 (as claimed): a 200 page with no history entry is the last page of the
\* pair fetch, whatever total and last-page flag it carries.
C18_EmptyPageEndsFetch ==
    OnPairs =>
        \A n \in 1..Len(call.asked) :
            (~Failed(call.asked[n].page) /\ EntriesOf(call.asked[n].page) = <<>>) =>
                (n = Len(call.asked) /\ call.s.exit = "return")

\* The n-th request of the pair fetch was answered 200.
Fetched(n) == ~Failed(call.asked[n].page)

\* The pair fetch stopped paging after its n-th request, which was answered
\* 200: it returned then.
StopsAfter(n) == n = Len(call.asked) /\ call.s.exit = "return"

\* History entries received up to and including the n-th request.
ReceivedUpTo(n) == call.asked[n].startAt + Len(EntriesOf(call.asked[n].page))

\* With a total, paging stops exactly when the entries received reach it.
StopsByTotal(n) ==
    call.asked[n].page.total # NoTotal =>
        (StopsAfter(n) <=> ReceivedUpTo(n) >= call.asked[n].page.total)

StatusItemsOf(page) ==
    LET entries == EntriesOf(page)
    IN UNION { { entries[h][m] :
                   m \in { k \in 1..Len(entries[h]) : entries[h][k].field = "status" } } :
               h \in 1..Len(entries) }
PagePairs(page) == { <<it.fromString, it.toString>> : it \in StatusItemsOf(page) }

\* History entries the requests before the n-th received.
RECURSIVE EntriesBefore(_)
EntriesBefore(n) ==
    IF n =< 1 THEN 0
    ELSE Len(EntriesOf(call.asked[n - 1].page)) + EntriesBefore(n - 1)

\* C20: every request's startAt is the number of history entries received
\* so far, and a pair fetch that returns gives exactly the (fromString,
\* toString) pairs of the "status" items of the pages it fetched, read from
\* "values" or, when that is missing or empty, from "histories".
C20_PairsOfAllPages ==
    OnPairs =>
        /\ \A n \in 1..Len(call.asked) : call.asked[n].startAt = EntriesBefore(n)
        /\ call.s.exit = "return" =>
               call.s.pairs = UNION { PagePairs(call.asked[n].page) :
                                        n \in 1..Len(call.asked) }

\* Two pages: a status item under "values", then an item of another field
\* under "histories"; the result is the one status pair.
C20_Witness ==
    /\ OnPairs
    /\ call.s.exit = "return"
    /\ Len(call.asked) = 2
    /\ call.asked[1].page.values = <<<<Item("status", "Open", "Done")>>>>
    /\ call.asked[2].page.histories = <<<<Item("resolution", "Done", "Open")>>>>
    /\ call.asked[2].startAt = 1
    /\ call.s.pairs = {<<"Open", "Done">>}


\* The issue followed on its own, and its run against a variant of the server.
OnIssue == call.fn = "issue"
VariantIndex(v) == CHOOSE n \in 1..Len(Variants) : Variants[n] = v
Ran(v) == OnIssue /\ Len(call.runs) >= VariantIndex(v)
RunOf(v) == call.runs[VariantIndex(v)]

\* The events a sequence of rows reports, by issue and status names.
ReportedNames(rows) ==
    [n \in 1..Len(rows) |-> <<rows[n].issueKey, rows[n].transition>>]

\* The name pairs of the "status" items the target holds for the issue.
TargetNamePairs ==
    UNION { { <<call.target[h][n].fromString, call.target[h][n].toString>> :
                n \in { m \in 1..Len(call.target[h]) :
                           call.target[h][m].field = "status" } } :
            h \in 1..Len(call.target) }

NoRowFor(e, rows) ==
    \A n \in 1..Len(rows) : rows[n].transition # Arrow(e.from, e.to)

\* C21: the drift decision depends on status names only. A run whose source
\* events differ from another's only in their from/to status ids reports the
\* same events, and an event whose names equal a target pair is never
\* reported, whatever its ids.
C21_DriftByNamesOnly ==
    Ran("other_ids") =>
        /\ ReportedNames(RunOf("other_ids").rows) = ReportedNames(RunOf("as_drawn").rows)
        /\ \A v \in {"as_drawn", "other_ids"} :
             \A n \in 1..Len(RunOf(v).events) :
                LET e == RunOf(v).events[n]
                IN <<e.from, e.to>> \in TargetNamePairs => NoRowFor(e, RunOf(v).rows)

\* Two events, one in the target and one not, and the ids of the second run
\* differ from those of the first and from those the target has.
C21_Witness ==
    /\ Ran("other_ids")
    /\ Len(RunOf("as_drawn").rows) = 1
    /\ Len(RunOf("other_ids").rows) = 1
    /\ RunOf("other_ids").rows[1].from_status # RunOf("as_drawn").rows[1].from_status
    /\ \E n \in 1..Len(RunOf("other_ids").events) :
         LET e == RunOf("other_ids").events[n]
         IN /\ <<e.from, e.to>> \in TargetNamePairs
            /\ e.fromId # StatusId(e.from)
            /\ e.toId # StatusId(e.to)


\* The kept events of a run whose name pair the target does not hold.
RECURSIVE NotInTarget(_)
NotInTarget(kept) ==
    IF kept = <<>> THEN <<>>
    ELSE (IF <<Head(kept).from, Head(kept).to>> \in TargetNamePairs
          THEN <<>> ELSE <<Head(kept)>>)
         \o NotInTarget(Tail(kept))

\* C22: the target pair set is used as a membership test only. The rows of
\* the issue are the same when the target's status items are reordered,
\* spread over pages differently or repeated, and a pair the target holds
\* once covers every source event with those names.
C22_PairSetIsMembershipOnly ==
    /\ \A v \in {"reordered", "paged", "repeated"} :
         Ran(v) => RunOf(v).rows = RunOf("as_drawn").rows
    /\ \A v \in Range(Variants) :
         Ran(v) =>
            /\ Len(RunOf(v).rows) = Len(NotInTarget(RunOf(v).kept))
            /\ \A n \in 1..Len(RunOf(v).kept) :
                 <<RunOf(v).kept[n].from, RunOf(v).kept[n].to>> \in TargetNamePairs
                    => NoRowFor(RunOf(v).kept[n], RunOf(v).rows)

\* The target holds two different status items, so that order and paging
\* matter, and the source returned the same transition twice.
C22_Witness ==
    /\ Ran("repeated")
    /\ Cardinality(TargetNamePairs) = Len(call.target)
    /\ Len(call.target) > 1
    /\ Len(RunOf("paged").kept) > 1
    /\ RunOf("paged").kept[1] = RunOf("paged").kept[Len(RunOf("paged").kept)]
    /\ RunOf("paged").rows = <<>>


\* The phase of process_project a request or write belongs to.
Phase(what) ==
    IF what = "cloud_project" THEN 1
    ELSE IF what = "dc_search" THEN 2
    ELSE IF what = "dc_issue" THEN 3
    ELSE IF what \in {"cloud_changelog", "cloud_issue_id"} THEN 4
    ELSE 6

\* The phase the call stands in, the comparison (5) having no request.
PhaseOfPc ==
    IF pc = "project_exists" THEN 1
    ELSE IF pc = "search" THEN 2
    ELSE IF pc = "dc_loop" THEN 3
    ELSE IF pc = "cloud_loop" THEN 4
    ELSE IF pc = "compare" THEN 5
    ELSE 6

InProcessProject ==
    pc \in {"project_exists", "search", "dc_loop", "cloud_loop", "compare", "returned"}

\* C23: within a project the phases run in order: presence lookups, source
\* search pages, source changelog fetches, target pair and id fetches,
\* comparison, report write. No source request follows the first target
\* changelog request, and an empty source key list leads directly to an
\* empty report.
C23_PhasesInOrder ==
    InProcessProject =>
        /\ \A m, n \in 1..Len(frame.trace) :
             m < n => Phase(frame.trace[m]) =< Phase(frame.trace[n])
        /\ \A n \in 1..Len(frame.trace) : Phase(frame.trace[n]) =< PhaseOfPc
        /\ \A m, n \in 1..Len(frame.trace) :
             (m < n /\ frame.trace[m] = "cloud_changelog")
                => frame.trace[n] \notin {"dc_search", "dc_issue"}
        /\ pc = "compare" => "cloud_changelog" \in RequestKinds
        /\ pc = "cloud_loop" => "dc_issue" \in RequestKinds
        /\ pc = "dc_loop" => frame.issue_keys # <<>>
        /\ frame.outcome = "no_issues" =>
              /\ frame.trace = <<"cloud_project", "dc_search", "write_csv">>
              /\ TheReport = EmptyOnce

\* A project with two issues went through every phase and reported drift.
C23_Witness ==
    /\ AtReturn
    /\ frame.outcome = "compared"
    /\ Len(frame.dcOrder) > 1
    /\ TheReport.rows # <<>>
    /\ frame.trace = <<"cloud_project", "dc_search", "dc_issue", "cloud_changelog",
                       "cloud_issue_id", "cloud_changelog", "cloud_issue_id",
                       "write_csv">>


\* The number of entries of a trace that are `what`.
Count(trace, what) == Cardinality({ n \in 1..Len(trace) : trace[n] = what })

Outcomes == {"absent", "no_issues", "no_transitions", "compared", "failed"}

\* C24: every project main starts ends with its report written exactly once,
\* whichever way process_project ends; the write is the last effect of the
\* project, with no request after it, and the next project starts only after
\* it.
C24_ReportWrittenOnceLast ==
    /\ AtReturn =>
          /\ frame.outcome \in Outcomes
          /\ TheReport.writes = 1
          /\ Count(frame.trace, "write_csv") = 1
          /\ frame.trace[Len(frame.trace)] = "write_csv"
    /\ (InProcessProject /\ ~AtReturn) =>
          /\ TheReport.writes = 0
          /\ Count(frame.trace, "write_csv") = 0
    /\ InProcessProject => processed[Len(processed)] = project_key
    /\ \A n \in 1..Len(processed) :
          (n < Len(processed) \/ ~InProcessProject) => reports[processed[n]].writes = 1
    /\ \A p \in ProjectKeys : p \notin Range(processed) => reports[p] = NoReport

\* The run ended after two projects, one that failed and one with drift rows.
C24_Witness ==
    /\ pc = "main_exit"
    /\ Len(processed) > 1
    /\ failed # {}
    /\ \E p \in Range(processed) : reports[p].rows # <<>>


\* dc_list_projects has just returned the projects `Discovered` to main.
JustDiscovered == disc # <<>> /\ Answered200(disc[Len(disc)])
Discovered == ParseProjects(disc[Len(disc)].resp.body)

SameKey(a, b) == Upper(a) = Upper(b)
InAllowList(key) == \E k \in args.only : SameKey(k, key)
Allowed(p) == InAllowList(p.key)

\* C25: with an allow-list the run list is the discovered projects whose key
\* equals an entry of the list ignoring case, in discovery order; no other
\* project is processed and none gets a report.
C25_AllowListFilters ==
    args.only # {} =>
        /\ JustDiscovered => projects = SelectSeq(Discovered, Allowed)
        /\ \A p \in ProjectKeys :
             (p \in Range(processed) \/ reports[p] # NoReport) => InAllowList(p)
        /\ \A n \in 1..Len(projects) : InAllowList(projects[n].key)

\* The allow-list names one of the two projects in another case: it alone
\* was processed.
C25_Witness ==
    /\ pc = "main_exit"
    /\ args.only = {"alpha"}
    /\ args.resume_from = NoName
    /\ processed = <<"ALPHA">>
    /\ reports["ALPHA"].writes = 1
    /\ reports["beta"] = NoReport

\* The place (from 1) of the first project of the run list whose key is the
\* resume key ignoring case, 1 when there is none.
ResumePlaces == { n \in 1..Len(projects) : SameKey(projects[n].key, args.resume_from) }
ResumePlace ==
    IF ResumePlaces = {} THEN 1
    ELSE CHOOSE n \in ResumePlaces : \A m \in ResumePlaces : n =< m

AfterDiscovery == pc \in {"main_loop", "project_exists", "returned", "main_exit"}

\* C26: with a resume key that equals, ignoring case, the key of a project
\* of the run list, the projects processed are that project and those after
\* it, in order; with a key that matches none, all are processed from the
\* first, and the run does not fail.
C26_ResumeFromMatch ==
    args.resume_from # NoName =>
        /\ AfterDiscovery =>
              /\ \A n \in 1..Len(processed) :
                    /\ ResumePlace + n - 1 =< Len(projects)
                    /\ processed[n] = projects[ResumePlace + n - 1].key
              /\ pc = "main_exit" => Len(processed) = Len(projects) - (ResumePlace - 1)
        /\ pc = "crashed" => (projects = <<>> /\ processed = <<>>)

\* The resume key names the second project in another case.
C26_Witness ==
    /\ pc = "main_exit"
    /\ args.resume_from = "BETA"
    /\ args.only = {}
    /\ Len(projects) > 1
    /\ processed = <<"beta">>

WrittenOnce(p) == [writes |-> 1, rows |-> call.served[p]]

RECURSIVE ItemsOf(_)
ItemsOf(histories) ==
    IF histories = <<>> THEN <<>>
    ELSE Head(histories).items \o ItemsOf(Tail(histories))

IsStatusItem(item) == item.field = "status"
HasBothNames(e) == e.from # NoName /\ e.to # NoName

\* C28: the source fetcher emits one event per changelog item whose field is
\* "status", and none for other fields; an event without a from-name or
\* without a to-name is dropped before the comparison and never gives a row,
\* also when the target has no pair at all.
C28_StatusItemsOnlyNamedEventsOnly ==
    \A v \in Range(Variants) :
        Ran(v) =>
            LET run == RunOf(v)
                items == SelectSeq(ItemsOf(call.data.histories), IsStatusItem)
            IN /\ Len(run.events) = Len(items)
               /\ \A n \in 1..Len(items) :
                    /\ run.events[n].from = items[n].fromString
                    /\ run.events[n].to = items[n].toString
               /\ run.kept = SelectSeq(run.events, HasBothNames)
               /\ \A n \in 1..Len(run.rows) :
                    \E m \in 1..Len(run.kept) :
                        /\ HasBothNames(run.kept[m])
                        /\ run.rows[n].transition =
                               Arrow(run.kept[m].from, run.kept[m].to)

\* The changelog holds an item of another field and a status item without
\* its from-name, and the target holds no pair: no event is kept, no row made.
C28_Witness ==
    /\ Ran("as_drawn")
    /\ TargetNamePairs = {}
    /\ \E n \in 1..Len(ItemsOf(call.data.histories)) :
         ~IsStatusItem(ItemsOf(call.data.histories)[n])
    /\ Len(RunOf("as_drawn").events) = 1
    /\ RunOf("as_drawn").events[1].from = NoName
    /\ RunOf("as_drawn").kept = <<>>
    /\ RunOf("as_drawn").rows = <<>>


\* The first of display name, login name and email of an author object that
\* is not empty, and "Unknown" when there is none.
FirstNameOf(a) ==
    LET names == <<a.displayName, a.name, a.emailAddress>>
        given == { n \in 1..Len(names) : names[n] # NoName }
    IN IF given = {} THEN "Unknown"
       ELSE names[CHOOSE n \in given : \A m \in given : n =< m]

\* For each status item of the histories, in order, the author expected.
RECURSIVE ExpectedAuthors(_)
ExpectedAuthors(histories) ==
    IF histories = <<>> THEN <<>>
    ELSE [n \in 1..Len(SelectSeq(Head(histories).items, IsStatusItem)) |->
             FirstNameOf(Head(histories).author)]
         \o ExpectedAuthors(Tail(histories))

\* C29: the author of every emitted event and of every drift row is never
\* empty: it is the first non-empty of the display name, the login name and
\* the email of the history's author, and "Unknown" when the author is
\* missing or has none of the three.
C29_AuthorNeverEmpty ==
    \A v \in Range(Variants) :
        Ran(v) =>
            LET run == RunOf(v)
                expected == ExpectedAuthors(call.data.histories)
            IN /\ \A n \in 1..Len(run.events) :
                    /\ run.events[n].author # NoName
                    /\ run.events[n].author = expected[n]
               /\ \A n \in 1..Len(run.rows) :
                    /\ run.rows[n].author # NoName
                    /\ \E m \in 1..Len(run.events) :
                         /\ run.events[m].author = run.rows[n].author
                         /\ run.rows[n].transition =
                                Arrow(run.events[m].from, run.events[m].to)

\* A history without author gave a drift row, whose author is "Unknown".
C29_Witness ==
    /\ Ran("as_drawn")
    /\ Len(call.data.histories) = 1
    /\ call.data.histories[1].author = NoAuthor
    /\ Len(RunOf("as_drawn").rows) = 1
    /\ RunOf("as_drawn").rows[1].author = "Unknown"


\* The source reports more histories for the issue than it returned.
FewerThanTotal ==
    call.data.total # NoTotal /\ Len(call.data.histories) < call.data.total

\* C30: when the source returns fewer histories than the total it reports,
\* dc_iter_status_changes does not fail: it prints the truncation warning,
\* emits the events of the histories received, and the issue is compared on
\* those events. Without truncation there is no warning.
C30_TruncationWarnsAndGoesOn ==
    \A v \in Range(Variants) :
        Ran(v) =>
            LET run == RunOf(v)
            IN /\ ~run.raised
               /\ run.warned <=> FewerThanTotal
               /\ FewerThanTotal =>
                     /\ Len(run.events) =
                           Len(SelectSeq(ItemsOf(call.data.histories), IsStatusItem))
                     /\ run.kept = SelectSeq(run.events, HasBothNames)
                     /\ Len(run.rows) = Len(NotInTarget(run.kept))

\* A truncated changelog of two histories, warned about, gave a drift row.
C30_Witness ==
    /\ Ran("as_drawn")
    /\ FewerThanTotal
    /\ Len(call.data.histories) > 1
    /\ RunOf("as_drawn").warned
    /\ Len(RunOf("as_drawn").events) = Len(call.data.histories)
    /\ RunOf("as_drawn").rows # <<>>


\* The log holds the line `what` about `who`.
Printed(what, who) ==
    \E n \in 1..Len(frame.log) : frame.log[n] = [line |-> what, who |-> who]

\* The loop over the source changelogs of the project has ended.
DcLoopDone ==
    \/ pc \in {"cloud_loop", "compare"}
    \/ AtReturn /\ (frame.outcome \in {"no_transitions", "compared"}
                    \/ frame.raisedAt = "compare")

\* C31: when every API variant of the source changelog request of an issue
\* fails, the issue is skipped with a log line: it contributes no event, no
\* target request is made for it and it has no row, the project does not
\* fail for it, and the other issues of the project are still fetched and
\* compared.
C31_FailedSourceFetchSkipsIssue ==
    InProcessProject =>
        /\ \A key \in frame.dcFailed :
             /\ Printed("dc_error", key)
             /\ frame.dc_transitions_by_issue[key] = <<>>
             /\ key \notin Range(frame.dcOrder)
             /\ frame.cloud_cache[key] = None
             /\ frame.cloudFail[key] = "none"
             /\ frame.cloud_issue_id_map[key] = ""
             /\ RowsOf(key) = <<>>
        /\ frame.raisedAt \in {"none", "search", "compare"}
        /\ DcLoopDone =>
              /\ frame.dcFailed \cup frame.dcFetched = Range(frame.issue_keys)
              /\ frame.dcFailed \cap frame.dcFetched = {}
        /\ (AtReturn /\ frame.outcome = "compared") =>
              \A key \in frame.dcFetched :
                 ~frame.cloud_cache[key].none =>
                    RowsOf(key) = MissingOf(key, frame.dc_transitions_by_issue[key],
                                            frame.cloud_cache[key].pairs)

\* The source fetch of the first issue failed and the second issue, fetched
\* after it, has a drift row.
C31_Witness ==
    /\ AtReturn
    /\ frame.outcome = "compared"
    /\ frame.dcFailed = {IssueKeyList[1]}
    /\ RowsOf(IssueKeyList[2]) # <<>>


\* The places of the log where the write of the report is printed.
WritePlaces == { n \in 1..Len(frame.log) : frame.log[n].line = "wrote_csv" }

\* The log holds one of the lines `whats` about `who` before any write.
PrintedBeforeWrite(whats, who) ==
    \E n \in 1..Len(frame.log) :
        /\ frame.log[n].line \in whats
        /\ frame.log[n].who = who
        /\ \A w \in WritePlaces : n < w

\* C33: no failure drops output silently. Whenever an issue is skipped
\* because its source or target fetch failed, and whenever the report of a
\* project is reduced to its headers (absent or unverifiable in the target,
\* search failure, no issues, exception), a line naming that issue or project
\* is printed before the report of the project is written.
C33_EverySkipIsLogged ==
    InProcessProject =>
        /\ \A key \in frame.dcFailed : PrintedBeforeWrite({"dc_error"}, key)
        /\ \A key \in IssueKeys :
             frame.cloudFail[key] # "none" => PrintedBeforeWrite({"cloud_error"}, key)
        /\ frame.outcome = "absent" =>
              PrintedBeforeWrite({"check_transport", "check_status", "not_found"},
                                 project_key)
        /\ frame.outcome = "no_issues" => PrintedBeforeWrite({"no_issues"}, project_key)
        /\ frame.outcome = "no_transitions" =>
              PrintedBeforeWrite({"no_transitions"}, project_key)
        /\ frame.outcome = "failed" =>
              PrintedBeforeWrite({"project_error"}, project_key)
        /\ AtReturn => Cardinality(WritePlaces) = 1

\* The presence check of the project was answered with a status other than
\* 200 and 404, and the report was written empty.
C33_Witness ==
    /\ AtReturn
    /\ frame.outcome = "absent"
    /\ TheReport = EmptyOnce
    /\ Printed("check_status", project_key)

\* The histories the source returned for the issue, one per event of a run
\* (a history yields one event for each of its status items).
RECURSIVE HistoryOfEvent(_)
HistoryOfEvent(histories) ==
    IF histories = <<>> THEN <<>>
    ELSE [n \in 1..Len(SelectSeq(Head(histories).items, IsStatusItem)) |->
             Head(histories)]
         \o HistoryOfEvent(Tail(histories))

\* The run of the specification's example: one source event
\* Open(1) -> In Progress(3) by Ann Lee, and the target pair set {(Open, Done)}.
ExampleDrawn ==
    /\ OnIssue
    /\ call.data.histories =
          <<History(FullAuthor, <<Item("status", "Open", "In Progress")>>)>>
    /\ TargetNamePairs = {<<"Open", "Done">>}

\* C32: a drift row carries the data of its source event unchanged. The rows
\* of an issue are, in order, those of its retained events whose name pair
\* the target lacks; each holds the issue key, the source and target ids
\* fetched for the issue, the transition "<from> → <to>", the from and to
\* status as "name (id)", and the author, creation time and id of the history
\* the event came from. For the example event the report has exactly one row.
C32_RowCarriesEventData ==
    /\ \A v \in Range(Variants) :
         Ran(v) =>
            LET run == RunOf(v)
                missing == NotInTarget(run.kept)
                source == HistoryOfEvent(call.data.histories)
            IN /\ Len(run.rows) = Len(missing)
               /\ \A n \in 1..Len(run.rows) :
                    run.rows[n] = ExpectedRow(call.key, missing[n], call.data.id,
                                              CloudIssueId)
               /\ Len(source) = Len(run.events)
               /\ \A n \in 1..Len(run.events) :
                    /\ run.events[n].timestamp = source[n].created
                    /\ run.events[n].changegroup_Id = source[n].id
                    /\ run.events[n].dcIssueId = call.data.id
    /\ (ExampleDrawn /\ Ran("as_drawn")) =>
          RunOf("as_drawn").rows =
             <<[issueKey |-> call.key, dc_issue_id |-> "10001",
                cloud_issue_id |-> "90001",
                transition |-> "Open → In Progress",
                from_status |-> "Open (1)", to_status |-> "In Progress (3)",
                author |-> "Ann Lee",
                timestamp |-> "2024-01-03T10:00:00.000+0000",
                changegroup_Id |-> "513", changeitem_Id |-> "513"]>>

\* The example was processed and gave its one row.
C32_Witness ==
    /\ ExampleDrawn
    /\ Ran("as_drawn")
    /\ Len(RunOf("as_drawn").rows) = 1
    /\ RunOf("as_drawn").rows[1].transition = "Open → In Progress"

\* ===================================================== statuscategory.py
\* fetch_status_for_key (lines 48-98) for one issue key, and the statement of
\* main that calls it and writes the row (lines 157-167).
RETRY_COUNT == 3
\* Line 95: RETRY_BACKOFF ** attempt, with RETRY_BACKOFF = 2.0.
RETRY_BACKOFF(attempt) == 2 ^ attempt

\* What a Python function returns: the pair (cat, name), or None when control
\* reaches the end of the function body without a return statement.
ReturnPair(cat, name) == [none |-> FALSE, cat |-> cat, name |-> name]
ReturnNone == [none |-> TRUE, cat |-> "", name |-> ""]
NotReturned == [none |-> TRUE, cat |-> "pending", name |-> "pending"]

\* GET /rest/api/2/issue/{key}?fields=status: a transport error (the request
\* raised RequestException), or an answer; a 429 may carry Retry-After, a 200
\* carries the status with or without its name and its category.
StatusAnswers ==
    { [raised |-> TRUE, status |-> TransportError, retry_after |-> NoName,
       cat |-> "", name |-> ""] }
    \cup { [raised |-> FALSE, status |-> 429, retry_after |-> ra,
            cat |-> "", name |-> ""] : ra \in {NoName, "1"} }
    \cup { [raised |-> FALSE, status |-> st, retry_after |-> NoName,
            cat |-> "", name |-> ""] : st \in {403, 404, 500} }
    \cup { [raised |-> FALSE, status |-> 200, retry_after |-> NoName,
            cat |-> c, name |-> n] : c \in {"", "Done"}, n \in {"", "Closed"} }

StatusKeys == { "", IssueKeyList[1] }

StatusCall(key) ==
    [fn |-> "fetch_status", key |-> key, attempt |-> 1, answers |-> <<>>,
     slept |-> 0, result |-> NotReturned, out_row |-> <<>>]

StatusInit ==
    /\ pc = "status_call"
    /\ ver = 1
    /\ projects = <<>>
    /\ idx = 0
    /\ reports = [p \in ProjectKeys |-> NoReport]
    /\ failed = {}
    /\ processed = <<>>
    /\ eventsLeft = MaxEvents
    /\ frame = BlankFrame
    /\ req = IdleReq
    /\ disc = <<>>
    /\ args = NoArgs
    /\ \E key \in StatusKeys : call = StatusCall(key)

\* Lines 58-62: an empty key returns ("", "") without a request.
FetchStatusStart ==
    /\ pc = "status_call"
    /\ call.fn = "fetch_status"
    /\ IF call.key = ""
       THEN /\ call' = [call EXCEPT !.result = ReturnPair("", "")]
            /\ pc' = "status_returned"
       ELSE /\ pc' = "status_attempt"
            /\ UNCHANGED call
    /\ UNCHANGED <<args, ver, projects, idx, reports, failed, processed, eventsLeft,
                   frame, req, disc>>

\* Line 69: the seconds slept on a 429.
RetryAfterSeconds(resp) == IF resp.retry_after = NoName THEN 5 ELSE 1

\* Lines 64-98 after a `continue` (line 73) or the end of the except block
\* (line 98): the next attempt, or, when range(1, RETRY_COUNT + 1) is
\* exhausted, the end of the function body, which returns None.
LoopEnd(c) ==
    IF c.attempt < RETRY_COUNT
    THEN [at |-> "status_attempt", call |-> [c EXCEPT !.attempt = @ + 1]]
    ELSE [at |-> "status_returned", call |-> [c EXCEPT !.result = ReturnNone]]

\* Lines 64-98: one iteration of the attempt loop.
FetchStatusAttempt ==
    /\ pc = "status_attempt"
    /\ call.fn = "fetch_status"
    /\ \E resp \in StatusAnswers :
         LET c1 == [call EXCEPT !.answers = Append(@, resp)]
             slept429 == [c1 EXCEPT !.slept = @ + RetryAfterSeconds(resp)]
             sleptBackoff == [c1 EXCEPT !.slept = @ + RETRY_BACKOFF(call.attempt)]
             returns(pair) == [at |-> "status_returned",
                               call |-> [c1 EXCEPT !.result = pair]]
             \* raise_for_status (line 80) raises HTTPError, a RequestException
             failure == resp.raised \/ resp.status >= 400
             after ==
                 IF ~resp.raised /\ resp.status = 429 THEN LoopEnd(slept429)
                 ELSE IF ~resp.raised /\ resp.status \in {403, 404}
                      THEN returns(ReturnPair("", ""))
                 ELSE IF failure
                      THEN (IF call.attempt = RETRY_COUNT
                            THEN returns(ReturnPair("", ""))
                            ELSE LoopEnd(sleptBackoff))
                 ELSE returns(ReturnPair(resp.cat, resp.name))
         IN /\ call' = after.call
            /\ pc' = after.at
    /\ UNCHANGED <<args, ver, projects, idx, reports, failed, processed, eventsLeft,
                   frame, req, disc>>

\* main, lines 160-167: `cat, name = fetch_status_for_key(...)` unpacks the
\* result (unpacking None raises TypeError, which no handler of main catches),
\* and the row is written with the category and the name appended.
UnpackAndWriteRow ==
    /\ pc = "status_returned"
    /\ call.fn = "fetch_status"
    /\ IF call.result.none
       THEN /\ pc' = "status_type_error"
            /\ UNCHANGED call
       ELSE /\ pc' = "status_row_written"
            /\ call' = [call EXCEPT !.out_row = <<call.key, call.result.cat,
                                                  call.result.name>>]
    /\ UNCHANGED <<args, ver, projects, idx, reports, failed, processed, eventsLeft,
                   frame, req, disc>>

StatusNext == FetchStatusStart \/ FetchStatusAttempt \/ UnpackAndWriteRow

SpecStatus == StatusInit /\ [][StatusNext]_vars

\* Every answer of the call was a failure the loop retries: a 429, a
\* transport error or a status raise_for_status rejects.
AllAttemptsFailed ==
    /\ Len(call.answers) = RETRY_COUNT
    /\ \A n \in 1..RETRY_COUNT :
         call.answers[n].raised \/ call.answers[n].status \in {429, 500}

\* C34: fetch_status_for_key returns a pair of strings on every path, and
\* the pair ("", "") whenever the fetch failed after its retries: with a 429
\* on each of the RETRY_COUNT attempts, with repeated transport errors, or
\* with a 403 or 404.
C34_AlwaysReturnsAPair ==
    (call.fn = "fetch_status" /\ pc = "status_returned") =>
        /\ ~call.result.none
        /\ (AllAttemptsFailed
              \/ (call.answers # <<>> /\
                  call.answers[Len(call.answers)].status \in {403, 404}))
             => call.result = ReturnPair("", "")

\* =============================================== backfill_first_status.py
\* first_status_for_issue (lines 154-201) against a server that holds the
\* changelog `histories` of the issue and serves it `size` histories to a page.
\* "created" is an ISO 8601 string, compared as a string by the sort: it is
\* modelled by its rank, 0 standing for a missing or empty value.
FirstItems ==
    { Item("status", "Open", "Done"), Item("Status", "Done", "Done"),
      Item("status", NoName, "Open"), Item("status", NoName, NoName),
      Item("assignee", "Open", "Done") }

ChangeHistory(created, items) == [created |-> created, items |-> items]

FirstHistories ==
    SeqsUpTo({ ChangeHistory(c, <<it>>) : c \in 0..2, it \in FirstItems }
             \cup { ChangeHistory(1, <<Item("status", "Done", "Open"),
                                       Item("status", "Open", "Open")>>) },
             MaxEvents)

\* Line 176: (it.get("field") or it.get("fieldId") or "").lower().
Lower(field) == IF field = "Status" THEN "status" ELSE field

\* GET /rest/api/2/issue/{key}/changelog?startAt=..&maxResults=100: a page
\* bean with the page under "values", with "startAt" and "maxResults", and
\* with "total" unless the server leaves it out.
ChangelogPage(server, start_at) ==
    [values |-> SubSeq(server.histories, start_at + 1,
                       Min(start_at + server.size, Len(server.histories))),
     startAt |-> start_at, maxResults |-> server.size,
     total |-> IF server.reports_total THEN Len(server.histories) ELSE NoTotal]

\* Lines 175-180: the status items of one history, as the tuples appended to
\* items_all.
RECURSIVE HistoryItems(_, _, _, _)
HistoryItems(h, page_idx, h_idx, i_idx) ==
    IF i_idx >= Len(h.items) THEN <<>>
    ELSE LET it == h.items[i_idx + 1]
             rest == HistoryItems(h, page_idx, h_idx, i_idx + 1)
         IN IF Lower(it.field) = "status"
            THEN <<[created |-> h.created, page |-> page_idx, h |-> h_idx,
                    i |-> i_idx, frm |-> it.fromString, to |-> it.toString]>>
                 \o rest
            ELSE rest

\* Lines 173-180: the tuples of one page.
RECURSIVE PageItems(_, _, _)
PageItems(histories, page_idx, h_idx) ==
    IF h_idx >= Len(histories) THEN <<>>
    ELSE HistoryItems(histories[h_idx + 1], page_idx, h_idx, 0)
         \o PageItems(histories, page_idx, h_idx + 1)

\* Line 192: the sort key (created, page, history, item), compared as Python
\* compares tuples.
SortKeyWithoutCreated(x) == <<0, x.page, x.h, x.i>>
SortKey(x) == <<x.created, x.page, x.h, x.i>>

RECURSIVE TupleLess(_, _)
TupleLess(a, b) ==
    IF a = <<>> THEN FALSE
    ELSE Head(a) < Head(b) \/ (Head(a) = Head(b) /\ TupleLess(Tail(a), Tail(b)))

\* Line 192: items_all.sort(key=...), a stable sort.
RECURSIVE SortItems(_)
SortItems(items) ==
    IF items = <<>> THEN <<>>
    ELSE LET m == CHOOSE n \in 1..Len(items) :
                    \A k \in 1..Len(items) :
                        k # n => \/ TupleLess(SortKey(items[n]), SortKey(items[k]))
                                 \/ (SortKey(items[n]) = SortKey(items[k]) /\ n < k)
             others == [k \in 1..(Len(items) - 1) |->
                           IF k < m THEN items[k] ELSE items[k + 1]]
         IN <<items[m]>> \o SortItems(others)

\* Lines 197 and 201: frm if frm else (to or current_status_name or "").
Initial(x, current_status_name) ==
    IF x.frm # NoName THEN x.frm
    ELSE IF x.to # NoName THEN x.to ELSE current_status_name

\* Lines 188-201: the result, from the tuples collected.
FirstStatusOf(items_all, current_status_name) ==
    LET sorted == SortItems(items_all)
        real == SelectSeq(sorted, LAMBDA x : x.frm # x.to)
    IN IF items_all = <<>> THEN current_status_name
       ELSE IF real # <<>> THEN Initial(real[1], current_status_name)
       ELSE Initial(sorted[1], current_status_name)

FirstServers ==
    { [histories |-> hs, size |-> sz, reports_total |-> rt] :
        hs \in FirstHistories, sz \in 1..MaxPages, rt \in BOOLEAN }

FirstCall(server, current) ==
    [fn |-> "first_status", server |-> server, current_status_name |-> current,
     start_at |-> 0, page_idx |-> 0, items_all |-> <<>>, result |-> NoName]

FirstInit ==
    /\ pc = "first_loop"
    /\ ver = 1
    /\ projects = <<>>
    /\ idx = 0
    /\ reports = [p \in ProjectKeys |-> NoReport]
    /\ failed = {}
    /\ processed = <<>>
    /\ eventsLeft = MaxEvents
    /\ frame = BlankFrame
    /\ req = IdleReq
    /\ disc = <<>>
    /\ args = NoArgs
    /\ \E server \in FirstServers, current \in {NoName, "Closed"} :
         call = FirstCall(server, current)

\* Lines 166-186: one iteration of the paging loop.
FetchChangelogPage ==
    /\ pc = "first_loop"
    /\ call.fn = "first_status"
    /\ LET data == ChangelogPage(call.server, call.start_at)
           histories == data.values
           start_at == data.startAt + data.maxResults
           total == IF data.total = NoTotal THEN start_at ELSE data.total
       IN IF histories = <<>>
          THEN /\ pc' = "first_pick"
               /\ UNCHANGED call
          ELSE /\ call' = [call EXCEPT
                             !.items_all = @ \o PageItems(histories, call.page_idx, 0),
                             !.start_at = start_at,
                             !.page_idx = @ + 1]
               /\ pc' = IF start_at >= total THEN "first_pick" ELSE "first_loop"
    /\ UNCHANGED <<args, ver, projects, idx, reports, failed, processed, eventsLeft,
                   frame, req, disc>>

\* Lines 188-201: the result is picked and returned.
PickFirstStatus ==
    /\ pc = "first_pick"
    /\ call.fn = "first_status"
    /\ call' = [call EXCEPT !.result = FirstStatusOf(call.items_all,
                                                     call.current_status_name)]
    /\ pc' = "first_returned"
    /\ UNCHANGED <<args, ver, projects, idx, reports, failed, processed, eventsLeft,
                   frame, req, disc>>

FirstNext == FetchChangelogPage \/ PickFirstStatus

SpecFirst == FirstInit /\ [][FirstNext]_vars

\* The status items the server holds for the issue, each with its creation
\* time and its place: the page it is served on, its history within the page
\* and its position within the history.
AllStatusItems ==
    UNION { { [created |-> call.server.histories[g].created,
               page |-> (g - 1) \div call.server.size,
               h |-> (g - 1) % call.server.size, i |-> n - 1,
               frm |-> call.server.histories[g].items[n].fromString,
               to |-> call.server.histories[g].items[n].toString] :
                 n \in { k \in 1..Len(call.server.histories[g].items) :
                           Lower(call.server.histories[g].items[k].field) = "status" } } :
            g \in 1..Len(call.server.histories) }

\* Those on the pages the call requested and received.
FetchedStatusItems == { x \in AllStatusItems : x.page < call.page_idx }

Before(x, y) ==
    \/ x.created < y.created
    \/ x.created = y.created /\ x.page < y.page
    \/ x.created = y.created /\ x.page = y.page /\ x.h < y.h
    \/ x.created = y.created /\ x.page = y.page /\ x.h = y.h /\ x.i < y.i

Earliest(S) == CHOOSE x \in S : \A y \in S \ {x} : Before(x, y)

\* The item the result is taken from: the earliest real change, else the
\* earliest item.
Chosen(S) ==
    LET real == { x \in S : x.frm # x.to }
    IN IF real # {} THEN Earliest(real) ELSE Earliest(S)

FirstReturned == call.fn = "first_status" /\ pc = "first_returned"

C36_TargetRequestsOnlyForRetained ==
    /\ \A key \in IssueKeys :
         frame.dc_transitions_by_issue[key] = <<>> =>
            /\ key \notin frame.cloudAsked
            /\ key \notin frame.idAsked
            /\ InProcessProject => RowsOf(key) = <<>>
    /\ frame.dcFailed \cap (frame.cloudAsked \cup frame.idAsked) = {}
    /\ frame.idAsked \subseteq frame.cloudAsked
    /\ (DcLoopDone /\ \A key \in IssueKeys : frame.dc_transitions_by_issue[key] = <<>>) =>
          /\ AtReturn
          /\ frame.outcome = "no_transitions"
          /\ TheReport = EmptyOnce
          /\ frame.cloudAsked = {}
          /\ frame.idAsked = {}
          /\ "cloud_changelog" \notin Range(frame.trace)
          /\ "cloud_issue_id" \notin Range(frame.trace)
    /\ (AtReturn /\ frame.outcome = "compared") =>
          frame.cloudAsked = { key \in IssueKeys : frame.dc_transitions_by_issue[key] # <<>> }

\* Of two issues whose source fetch returned, one has no retained transition:
\* only the other was asked of the target, and it has a row.
C36_Witness ==
    /\ AtReturn
    /\ frame.outcome = "compared"
    /\ frame.dcFetched = Range(frame.issue_keys)
    /\ Len(frame.issue_keys) = 2
    /\ frame.cloudAsked = {frame.issue_keys[2]}
    /\ frame.idAsked = {frame.issue_keys[2]}
    /\ RowsOf(frame.issue_keys[2]) # <<>>

\* C37: dc_list_projects raises its discovery error only after every API
\* variant has been tried: when the request of the first variant failed, with
\* a status other than 200 or with a transport exception re-raised by the
\* HTTP client after its retries, the second variant is requested as well.
C37_EveryVariantTriedBeforeError ==
    pc = "crashed" =>
        /\ Len(disc) = Len(Versions)
        /\ \A n \in 1..Len(disc) : disc[n].ver = Versions[n]

\* C38: the allow-list is applied before the resume point. The resume key is
\* looked up in the run list the allow-list left, so a resume key that names
\* a discovered project outside the allow-list is unmatched and every
\* allow-listed project is processed; an allow-list that matches no
\* discovered project ends the run with no project processed and no report.
C38_AllowListBeforeResume ==
    (call.fn = "main" /\ args.only # {}) =>
        /\ JustDiscovered =>
              /\ projects = SelectSeq(Discovered, Allowed)
              /\ idx = ResumePlace
              /\ projects = <<>> <=> pc = "main_exit"
        /\ (AfterDiscovery /\ args.resume_from # NoName /\ ~InAllowList(args.resume_from)) =>
              /\ \A n \in 1..Len(processed) : processed[n] = projects[n].key
              /\ pc = "main_exit" =>
                    /\ Len(processed) = Len(projects)
                    /\ \A n \in 1..Len(projects) : reports[projects[n].key].writes = 1
        /\ (pc = "main_exit" /\ projects = <<>>) =>
              /\ processed = <<>>
              /\ \A p \in ProjectKeys : reports[p] = NoReport

\* The resume key names the discovered project "beta", which the allow-list
\* leaves out: the run starts at the first allow-listed project.
C38_Witness ==
    /\ call.fn = "main"
    /\ JustDiscovered
    /\ args.only = {"alpha"}
    /\ args.resume_from = "BETA"
    /\ \E n \in 1..Len(Discovered) : Discovered[n].key = "beta"
    /\ Len(projects) = 1
    /\ projects[1].key = "ALPHA"
    /\ idx = 1
    /\ pc = "main_loop"

\* ===================================================== resolution_main.py
\* search_issues (lines 149-203) against a server that holds the issues
\* matching the JQL, numbered 1..n, and serves them `size` to a page.
MatchingIssues == { [k \in 1..n |-> k] : n \in 0..MaxPageSize }

ResolveServers ==
    { [issues |-> is, size |-> sz, legacy_total |-> lt] :
        is \in MatchingIssues, sz \in 1..MaxPages, lt \in BOOLEAN }

\* How jira_get (lines 88-95) ends: with the JSON body, or with the HTTPError
\* raise_for_status raises for the status of the (second, after a 429) answer.
JiraGetOutcomes == {200, 404, 410, 500}

\* GET {API_PREFIX}/search/jql: the page after the token (the number of
\* issues served before it), with nextPageToken and isLast.
EnhancedPage(server, next_token) ==
    LET upto == Min(next_token + server.size, Len(server.issues))
    IN [issues |-> SubSeq(server.issues, next_token + 1, upto),
        nextPageToken |-> IF upto < Len(server.issues) THEN upto ELSE 0,
        isLast |-> upto >= Len(server.issues)]

\* GET {API_PREFIX}/search?startAt=..: the page from startAt, with the total
\* unless the server leaves it out (data.get("total", 0), line 200).
LegacyPage(server, start_at) ==
    [issues |-> SubSeq(server.issues, start_at + 1,
                       Min(start_at + server.size, Len(server.issues))),
     total |-> IF server.legacy_total THEN Len(server.issues) ELSE 0]

ResolveCall(server) ==
    [fn |-> "search_issues", server |-> server, next_token |-> 0,
     use_enhanced |-> TRUE, start_at |-> 0, yielded |-> <<>>,
     enhanced_pages |-> 0, fell_back_on |-> 0]

ResolveInit ==
    /\ pc = "resolve_enhanced"
    /\ ver = 1
    /\ projects = <<>>
    /\ idx = 0
    /\ reports = [p \in ProjectKeys |-> NoReport]
    /\ failed = {}
    /\ processed = <<>>
    /\ eventsLeft = MaxEvents
    /\ frame = BlankFrame
    /\ req = IdleReq
    /\ disc = <<>>
    /\ args = NoArgs
    /\ \E server \in ResolveServers : call = ResolveCall(server)

\* Lines 156-185: one iteration of the outer loop, a request to /search/jql.
\* Its issues are yielded; a 404 or 410 turns to the legacy search, which
\* starts at startAt 0; any other error leaves the generator.
SearchEnhanced ==
    /\ pc = "resolve_enhanced"
    /\ call.fn = "search_issues"
    /\ \E status \in JiraGetOutcomes :
         LET data == EnhancedPage(call.server, call.next_token)
         IN IF status = 200
            THEN /\ call' = [call EXCEPT !.yielded = @ \o data.issues,
                                         !.next_token = data.nextPageToken,
                                         !.enhanced_pages = @ + 1]
                 /\ pc' = IF data.isLast \/ data.nextPageToken = 0
                          THEN "resolve_done" ELSE "resolve_enhanced"
            ELSE IF status \in {404, 410}
            THEN /\ call' = [call EXCEPT !.use_enhanced = FALSE, !.start_at = 0,
                                         !.fell_back_on = status]
                 /\ pc' = "resolve_legacy"
            ELSE /\ pc' = "resolve_raised"
                 /\ UNCHANGED call
    /\ UNCHANGED <<args, ver, projects, idx, reports, failed, processed, eventsLeft,
                   frame, req, disc>>

\* Lines 186-203: one iteration of the legacy loop, a request to /search.
SearchLegacy ==
    /\ pc = "resolve_legacy"
    /\ call.fn = "search_issues"
    /\ \E status \in {200, 500} :
         LET data == LegacyPage(call.server, call.start_at)
             start_at == call.start_at + Len(data.issues)
         IN IF status = 200
            THEN /\ call' = [call EXCEPT !.yielded = @ \o data.issues,
                                         !.start_at = start_at]
                 /\ pc' = IF start_at >= data.total \/ data.issues = <<>>
                          THEN "resolve_done" ELSE "resolve_legacy"
            ELSE /\ pc' = "resolve_raised"
                 /\ UNCHANGED call
    /\ UNCHANGED <<args, ver, projects, idx, reports, failed, processed, eventsLeft,
                   frame, req, disc>>

ResolveNext == SearchEnhanced \/ SearchLegacy

SpecResolve == ResolveInit /\ [][ResolveNext]_vars

\* C39: search_issues yields every matching issue at most once, also when
\* /search/jql answers 404 or 410 only after one or more of its pages were
\* yielded and the legacy /search, which starts at startAt 0, takes over.
C39_EachIssueYieldedOnce ==
    call.fn = "search_issues" =>
        \A m, n \in 1..Len(call.yielded) :
            m # n => call.yielded[m] # call.yielded[n]

\* ======================================================= fix_resolution.py
\* JiraClient.get, post and put (lines 77-99) with _rate_limit_guard
\* (lines 70-75), for one call. The server gives at most MaxFeed answers.
\* A "Retry-After" header that is absent.
NoRetryAfter == -1

\* What the session returns for a request: an answer with its status and,
\* on a 429, its Retry-After header; or a transport exception.
ClientAnswers ==
    { [raised |-> FALSE, status |-> 429, retry_after |-> ra] :
        ra \in {NoRetryAfter, 1, 7} }
    \cup { [raised |-> FALSE, status |-> st, retry_after |-> NoRetryAfter] :
             st \in {200, 404, 500} }
    \cup { [raised |-> TRUE, status |-> TransportError, retry_after |-> NoRetryAfter] }

\* Lines 70-75: whether the request is to be repeated, and the seconds slept
\* before that (int(resp.headers.get("Retry-After", "5"))).
RateLimitGuardOnlyWithHeader(resp) ==
    IF resp.status = 429 /\ resp.retry_after # NoRetryAfter
    THEN [again |-> TRUE, slept |-> resp.retry_after]
    ELSE [again |-> FALSE, slept |-> 0]

_rate_limit_guard(resp) ==
    IF resp.status = 429
    THEN [again |-> TRUE,
          slept |-> IF resp.retry_after = NoRetryAfter THEN 5 ELSE resp.retry_after]
    ELSE [again |-> FALSE, slept |-> 0]

ClientCall(method) ==
    [fn |-> "jira_client", method |-> method, answers |-> <<>>, slept |-> 0,
     resp |-> [raised |-> FALSE, status |-> 0, retry_after |-> NoRetryAfter]]

ClientInit ==
    /\ pc = "client_request"
    /\ ver = 1
    /\ projects = <<>>
    /\ idx = 0
    /\ reports = [p \in ProjectKeys |-> NoReport]
    /\ failed = {}
    /\ processed = <<>>
    /\ eventsLeft = MaxEvents
    /\ frame = BlankFrame
    /\ req = IdleReq
    /\ disc = <<>>
    /\ args = NoArgs
    /\ \E method \in {"get", "post", "put"} : call = ClientCall(method)

\* One iteration of `while True` in get, post or put: the request, the guard,
\* and `continue` or `return resp`. An exception of the session propagates.
ClientRequest(method) ==
    /\ pc = "client_request"
    /\ call.fn = "jira_client"
    /\ call.method = method
    /\ Len(call.answers) < MaxFeed
    /\ \E resp \in ClientAnswers :
         LET guard == _rate_limit_guard(resp)
             c1 == [call EXCEPT !.answers = Append(@, resp)]
         IN IF resp.raised
            THEN call' = c1 /\ pc' = "client_raised"
            ELSE IF guard.again
            THEN call' = [c1 EXCEPT !.slept = @ + guard.slept] /\ UNCHANGED pc
            ELSE call' = [c1 EXCEPT !.resp = resp] /\ pc' = "client_returned"
    /\ UNCHANGED <<args, ver, projects, idx, reports, failed, processed, eventsLeft,
                   frame, req, disc>>

\* Lines 77-83, 85-91 and 93-99.
post == ClientRequest("post")
get == ClientRequest("get")
put == ClientRequest("put")

ClientNext == post \/ get \/ put

SpecClient == ClientInit /\ [][ClientNext]_vars

\* The seconds the claim has a call sleep for the answers given so far.
RECURSIVE SleepFor(_)
SleepFor(answers) ==
    IF answers = <<>> THEN 0
    ELSE (IF Head(answers).status # 429 THEN 0
          ELSE IF Head(answers).retry_after = NoRetryAfter THEN 5
          ELSE Head(answers).retry_after)
         + SleepFor(Tail(answers))

OnlyTooManyRequests(answers) ==
    \A n \in 1..Len(answers) : ~answers[n].raised /\ answers[n].status = 429

\* C40: get, post and put never return a 429 to their caller. On each 429
\* they sleep for Retry-After (5 seconds when absent) and repeat the request,
\* however many 429 came before: a call returns only on an answer that is not
\* a 429, and while every answer is a 429 it has not returned.
C40_NeverReturnsTooManyRequests ==
    call.fn = "jira_client" =>
        /\ call.slept = SleepFor(call.answers)
        /\ pc = "client_returned" =>
              /\ call.answers # <<>>
              /\ call.resp = call.answers[Len(call.answers)]
              /\ call.resp.status # 429
              /\ OnlyTooManyRequests(SubSeq(call.answers, 1, Len(call.answers) - 1))
        /\ OnlyTooManyRequests(call.answers) => pc = "client_request"
        /\ pc = "client_request" => OnlyTooManyRequests(call.answers)

\* A put was answered 429 on every request but the last, once without
\* Retry-After, and returned the last answer.
C40_Witness ==
    /\ call.fn = "jira_client"
    /\ call.method = "put"
    /\ pc = "client_returned"
    /\ Len(call.answers) = MaxFeed
    /\ call.answers[1].retry_after = NoRetryAfter
    /\ call.answers[2].retry_after = 7
    /\ call.slept > 5 * (MaxFeed - 1)
    /\ call.resp.status = 200

====
